---- MODULE Spec2Model ----
(***************************************************************************)
(* The introduce protocol's states (pkg/didcomm/protocol/introduce) and    *)
(* the state machine that runs them for one thread.                        *)
(*                                                                         *)
(* A state is one of ten Go types; Name, CanTransitionTo, ExecuteInbound   *)
(* and ExecuteOutbound are operators over the type tag.  The messenger is  *)
(* a log of accepted messages; a send may fail, chosen by the             *)
(* environment.  An execute operation returns                              *)
(*   [followup, err, msgs, m]                                              *)
(* followup: the returned state ("nil" for Go's nil), err: "nil", "error"  *)
(* or "panic" (a Go run-time panic: index out of range, nil dereference),  *)
(* msgs: the messages the messenger accepted, m: the context afterwards    *)
(* (recipients are pointers, fillRecipient writes through them).           *)
(***************************************************************************)
EXTENDS Integers, Sequences, FiniteSets, TLC

\* ------------------------------------------------------------------ bounds
MaxRecipients == 2
MaxWaitCount == 2
MaxIntroduceeIndex == 1

\* --------------------------------------------------------------- constants
stateNameNoop == "noop"
stateNameStart == "start"
stateNameAbandoning == "abandoning"
stateNameDone == "done"
stateNameArranging == "arranging"
stateNameDelivering == "delivering"
stateNameConfirming == "confirming"
stateNameRequesting == "requesting"
stateNameDeciding == "deciding"
stateNameWaiting == "waiting"

\* message types an inbound or outbound trigger can carry
RequestMsgType == "request"
ResponseMsgType == "response"
ProposalMsgType == "proposal"
ProblemReportMsgType == "problem-report"
AckMsgType == "ack"
InvitationMsgType == "invitation"

\* the wait counter's first value: two responses outstanding
initialWaitCount == 2

\* the Go types implementing the state interface
StateTypes ==
    {"noOp", "start", "done", "arranging", "delivering", "confirming",
     "abandoning", "deciding", "waiting", "requesting"}

\* done reports the sentinel's name
Name_DoneNamedNoop(s) ==
    CASE s \in {"noOp", "done"} -> stateNameNoop
      [] s = "start" -> stateNameStart
      [] s = "arranging" -> stateNameArranging
      [] s = "delivering" -> stateNameDelivering
      [] s = "confirming" -> stateNameConfirming
      [] s = "abandoning" -> stateNameAbandoning
      [] s = "deciding" -> stateNameDeciding
      [] s = "waiting" -> stateNameWaiting
      [] s = "requesting" -> stateNameRequesting

Name(s) ==
    CASE s = "noOp" -> stateNameNoop
      [] s = "start" -> stateNameStart
      [] s = "done" -> stateNameDone
      [] s = "arranging" -> stateNameArranging
      [] s = "delivering" -> stateNameDelivering
      [] s = "confirming" -> stateNameConfirming
      [] s = "abandoning" -> stateNameAbandoning
      [] s = "deciding" -> stateNameDeciding
      [] s = "waiting" -> stateNameWaiting
      [] s = "requesting" -> stateNameRequesting

\* start also admits delivering, arranging no longer admits itself
CanTransitionTo_StartDelivering(s, next) ==
    Name(next) \in
        (CASE s = "start" -> {stateNameArranging, stateNameDelivering, stateNameDeciding,
                             stateNameRequesting, stateNameAbandoning}
           [] s = "arranging" -> {stateNameDone, stateNameAbandoning, stateNameDelivering}
           [] s = "delivering" -> {stateNameConfirming, stateNameDone, stateNameAbandoning}
           [] s = "confirming" -> {stateNameDone, stateNameAbandoning}
           [] s = "abandoning" -> {stateNameDone}
           [] s = "deciding" -> {stateNameWaiting, stateNameDone, stateNameAbandoning}
           [] s = "waiting" -> {stateNameDone, stateNameAbandoning}
           [] s = "requesting" -> {stateNameDeciding, stateNameAbandoning, stateNameDone}
           [] OTHER -> {})

CanTransitionTo(s, next) ==
    CASE s = "noOp" -> FALSE
      [] s = "start" ->
            Name(next) \in {stateNameArranging, stateNameDeciding,
                            stateNameRequesting, stateNameAbandoning}
      [] s = "done" -> FALSE
      [] s = "arranging" ->
            \/ Name(next) = stateNameArranging
            \/ Name(next) = stateNameDone
            \/ Name(next) = stateNameAbandoning
            \/ Name(next) = stateNameDelivering
      [] s = "delivering" ->
            \/ Name(next) = stateNameConfirming
            \/ Name(next) = stateNameDone
            \/ Name(next) = stateNameAbandoning
      [] s = "confirming" ->
            Name(next) = stateNameDone \/ Name(next) = stateNameAbandoning
      [] s = "abandoning" -> Name(next) = stateNameDone
      [] s = "deciding" ->
            \/ Name(next) = stateNameWaiting
            \/ Name(next) = stateNameDone
            \/ Name(next) = stateNameAbandoning
      [] s = "waiting" ->
            Name(next) = stateNameDone \/ Name(next) = stateNameAbandoning
      [] s = "requesting" ->
            \/ Name(next) = stateNameDeciding
            \/ Name(next) = stateNameAbandoning
            \/ Name(next) = stateNameDone

\* ------------------------------------------------------------ the context
\* A DID is a tag with an index; the empty string is the empty tuple.
EmptyDID == <<>>

\* own and peer DID of the connection the triggering message arrived on
MsgMyDID == <<"my", 0>>
MsgTheirDID == <<"their", 0>>

\* The i-th recipient of the list (1-based here, Recipients[i-1] in Go).
\* Only the first recipient may still lack its DIDs (persistence.go:379).
RecipientsAt(i) ==
    IF i = 1
    THEN [MyDID : {EmptyDID, <<"my", 1>>},
          TheirDID : {EmptyDID, <<"their", 1>>},
          To : {<<"to", 1>>}]
    ELSE {[MyDID |-> <<"my", i>>, TheirDID |-> <<"their", i>>, To |-> <<"to", i>>]}

RecipientLists ==
    UNION {{rs \in [1..n -> UNION {RecipientsAt(i) : i \in 1..n}] :
                \A i \in 1..n : rs[i] \in RecipientsAt(i)} : n \in 0..MaxRecipients}

\* The triggering message: its type, whether its payload decodes as a
\* Response, and the decoded approve field.
Messages ==
    {[type |-> RequestMsgType, decodes |-> TRUE, approve |-> FALSE],
     [type |-> ProposalMsgType, decodes |-> TRUE, approve |-> FALSE],
     [type |-> ResponseMsgType, decodes |-> TRUE, approve |-> TRUE],
     [type |-> ResponseMsgType, decodes |-> TRUE, approve |-> FALSE],
     [type |-> ResponseMsgType, decodes |-> FALSE, approve |-> FALSE]}

\* metaData: dependency is "nil", or a dependency whose SkipProposal() is
\* false ("propose") or true ("skip"); Invitation is nil (FALSE) or set.
Contexts ==
    [Msg : Messages,
     ThreadID : {"thid"},
     myDID : {MsgMyDID},
     theirDID : {MsgTheirDID},
     Recipients : RecipientLists,
     WaitCount : 0..MaxWaitCount,
     IntroduceeIndex : 0..MaxIntroduceeIndex,
     Invitation : BOOLEAN,
     disapprove : BOOLEAN,
     dependency : {"nil", "propose", "skip"}]

NoContext ==
    [Msg |-> [type |-> ProposalMsgType, decodes |-> TRUE, approve |-> FALSE],
     ThreadID |-> "thid", myDID |-> MsgMyDID, theirDID |-> MsgTheirDID,
     Recipients |-> <<>>, WaitCount |-> 0, IntroduceeIndex |-> 0,
     Invitation |-> FALSE, disapprove |-> FALSE, dependency |-> "nil"]

\* ---------------------------------------------------------- the messenger
\* A message the messenger accepted: the call used (Send, ReplyTo,
\* ReplyToNested), the payload type, the DIDs it is addressed with, the
\* thread or message id it refers to, and the payload's distinguishing field.
Sent(op, type, from, to, ref, body) ==
    [op |-> op, type |-> type, from |-> from, to |-> to, ref |-> ref, body |-> body]

MsgID == "msgid"
NoBody == "none"

\* the result of an execute operation
Ret(followup, err, msgs, m) ==
    [followup |-> followup, err |-> err, msgs |-> msgs, m |-> m]

Panic(m) == Ret("nil", "panic", <<>>, m)

\* One messenger call that is the fail-th call of its operation fails
\* (fail = 0: the messenger accepts every call).
Accepts(fail, k) == fail # k

\* ------------------------------------------------------- states' helpers
\* the test of the index is inverted
toDestIDx_Inverted(idx) == IF idx = 0 THEN 0 ELSE 1

toDestIDx(idx) == IF idx = 0 THEN 1 ELSE 0

\* a Response that fails to decode counts as a disapproval
getApproveFromMsg_DecodeFailureDisapproves(msg) ==
    IF msg.type # ResponseMsgType
    THEN [approve |-> FALSE, ok |-> FALSE]
    ELSE IF ~msg.decodes
         THEN [approve |-> FALSE, ok |-> TRUE]
         ELSE [approve |-> msg.approve, ok |-> TRUE]

getApproveFromMsg(msg) ==
    IF msg.type # ResponseMsgType
    THEN [approve |-> FALSE, ok |-> FALSE]
    ELSE IF ~msg.decodes
         THEN [approve |-> FALSE, ok |-> FALSE]
         ELSE [approve |-> msg.approve, ok |-> TRUE]

isSkipProposal(m) == m.dependency = "skip"

\* after the reports the thread rests at abandoning
sendProblemReport_Rests(fail, m, recipients) ==
    LET problem(r) == Sent("ReplyToNested", ProblemReportMsgType,
                           r.MyDID, r.TheirDID, m.ThreadID, NoBody)
        n == Len(recipients)
    IN  IF fail \in 1..n
        THEN Ret("nil", "error", [i \in 1..(fail - 1) |-> problem(recipients[i])], m)
        ELSE Ret("noOp", "nil", [i \in 1..n |-> problem(recipients[i])], m)

\* Sends one problem-report per recipient, in order, and stops at the first
\* send the messenger refuses.
sendProblemReport(fail, m, recipients) ==
    LET problem(r) == Sent("ReplyToNested", ProblemReportMsgType,
                           r.MyDID, r.TheirDID, m.ThreadID, NoBody)
        n == Len(recipients)
    IN  IF fail \in 1..n
        THEN Ret("nil", "error", [i \in 1..(fail - 1) |-> problem(recipients[i])], m)
        ELSE Ret("done", "nil", [i \in 1..n |-> problem(recipients[i])], m)

deliveringSkipInvitation(fail, m, recipients) ==
    IF m.dependency = "nil" \/ Len(recipients) = 0
    THEN Panic(m)
    ELSE IF ~Accepts(fail, 1)
         THEN Ret("nil", "error", <<>>, m)
         ELSE Ret("done", "nil",
                  <<Sent("ReplyToNested", InvitationMsgType, recipients[1].MyDID,
                         recipients[1].TheirDID, m.ThreadID, "dependency")>>, m)

\* the DIDs of the first recipient are taken from the message in every case
fillRecipient_Overwrites(recipients, m) ==
    IF Len(recipients) = 0
    THEN <<[MyDID |-> m.myDID, TheirDID |-> m.theirDID, To |-> EmptyDID]>>
    ELSE [recipients EXCEPT ![1].MyDID = m.myDID, ![1].TheirDID = m.theirDID]

\* The list fillRecipient returns; when the list is not empty its first
\* element is written in place.
fillRecipient(recipients, m) ==
    IF Len(recipients) = 0
    THEN <<[MyDID |-> m.myDID, TheirDID |-> m.theirDID, To |-> EmptyDID]>>
    ELSE [recipients EXCEPT
            ![1].MyDID = IF @ = EmptyDID THEN m.myDID ELSE @,
            ![1].TheirDID = IF @ = EmptyDID THEN m.theirDID ELSE @]

\* ------------------------------------------------- the execute operations
\* the sentinel behaves like done
noOpExecuteInbound_Succeeds(fail, m) == Ret("noOp", "nil", <<>>, m)

noOpExecuteInbound(fail, m) == Ret("nil", "error", <<>>, m)

noOpExecuteOutbound(fail, m) == Ret("nil", "error", <<>>, m)

startExecuteInbound(fail, m) == Ret("nil", "error", <<>>, m)

startExecuteOutbound(fail, m) == Ret("nil", "error", <<>>, m)

\* done refuses an inbound execution as it refuses an outbound one
doneExecuteInbound_Fails(fail, m) == Ret("nil", "error", <<>>, m)

doneExecuteInbound(fail, m) == Ret("noOp", "nil", <<>>, m)

doneExecuteOutbound(fail, m) == Ret("nil", "error", <<>>, m)

\* the disapproval test comes before the skip-proposal test
arrangingExecuteInbound_ApproveFirst(fail, m) ==
    LET a == getApproveFromMsg(m.Msg)
        idx == IF m.WaitCount = initialWaitCount THEN 0 ELSE 1
    IN  IF a.ok /\ ~a.approve
        THEN Ret("abandoning", "nil", <<>>, m)
        ELSE IF m.Msg.type = ResponseMsgType /\ isSkipProposal(m)
        THEN Ret("delivering", "nil", <<>>, m)
        ELSE IF idx >= Len(m.Recipients)
        THEN Panic(m)
        ELSE LET recipient == m.Recipients[idx + 1]
             IN  IF Accepts(fail, 1)
                 THEN Ret("noOp", "nil",
                          <<Sent("Send", ProposalMsgType, recipient.MyDID,
                                 recipient.TheirDID, m.ThreadID, recipient.To)>>, m)
                 ELSE Ret("noOp", "error", <<>>, m)

\* the proposal goes to the second recipient first
arrangingExecuteInbound_SecondFirst(fail, m) ==
    LET a == getApproveFromMsg(m.Msg)
        idx == IF m.WaitCount = initialWaitCount THEN 1 ELSE 0
    IN  IF m.Msg.type = ResponseMsgType /\ isSkipProposal(m)
        THEN Ret("delivering", "nil", <<>>, m)
        ELSE IF a.ok /\ ~a.approve
        THEN Ret("abandoning", "nil", <<>>, m)
        ELSE IF idx >= Len(m.Recipients)
        THEN Panic(m)
        ELSE LET recipient == m.Recipients[idx + 1]
             IN  IF Accepts(fail, 1)
                 THEN Ret("noOp", "nil",
                          <<Sent("Send", ProposalMsgType, recipient.MyDID,
                                 recipient.TheirDID, m.ThreadID, recipient.To)>>, m)
                 ELSE Ret("noOp", "error", <<>>, m)

arrangingExecuteInbound(fail, m) ==
    LET a == getApproveFromMsg(m.Msg)
        \* Go index of the recipient the proposal goes to
        idx == IF m.WaitCount = initialWaitCount THEN 0 ELSE 1
    IN  IF m.Msg.type = ResponseMsgType /\ isSkipProposal(m)
        THEN Ret("delivering", "nil", <<>>, m)
        ELSE IF a.ok /\ ~a.approve
        THEN Ret("abandoning", "nil", <<>>, m)
        ELSE IF idx >= Len(m.Recipients)
        THEN Panic(m)
        ELSE LET recipient == m.Recipients[idx + 1]
             IN  IF Accepts(fail, 1)
                 THEN Ret("noOp", "nil",
                          <<Sent("Send", ProposalMsgType, recipient.MyDID,
                                 recipient.TheirDID, m.ThreadID, recipient.To)>>, m)
                 ELSE Ret("noOp", "error", <<>>, m)

\* the triggering message itself, sent on the connection it belongs to
Outbound(m) == Sent("Send", m.Msg.type, m.myDID, m.theirDID, m.ThreadID, "Msg")

arrangingExecuteOutbound(fail, m) ==
    IF ~Accepts(fail, 1)
    THEN Ret("nil", "error", <<>>, m)
    ELSE Ret("noOp", "nil", <<Outbound(m)>>, m)

\* the missing invitation is not tested before it is relayed
deliveringExecuteInbound_NoInvitationTest(fail, m) ==
    LET a == getApproveFromMsg(m.Msg)
        dest == toDestIDx(m.IntroduceeIndex)
    IN  IF a.ok /\ ~a.approve
        THEN Ret("abandoning", "nil", <<>>, m)
        ELSE IF isSkipProposal(m)
        THEN deliveringSkipInvitation(fail, m, m.Recipients)
        ELSE IF dest >= Len(m.Recipients)
        THEN Panic(m)
        ELSE LET recipient == m.Recipients[dest + 1]
             IN  IF ~Accepts(fail, 1)
                 THEN Ret("nil", "error", <<>>, m)
                 ELSE Ret("confirming", "nil",
                          <<Sent("ReplyToNested", InvitationMsgType, recipient.MyDID,
                                 recipient.TheirDID, m.ThreadID, "Invitation")>>, m)

\* the skip-proposal test comes before the disapproval test
deliveringExecuteInbound_SkipFirst(fail, m) ==
    LET a == getApproveFromMsg(m.Msg)
        dest == toDestIDx(m.IntroduceeIndex)
    IN  IF isSkipProposal(m)
        THEN deliveringSkipInvitation(fail, m, m.Recipients)
        ELSE IF a.ok /\ ~a.approve
        THEN Ret("abandoning", "nil", <<>>, m)
        ELSE IF ~m.Invitation
        THEN Ret("abandoning", "nil", <<>>, m)
        ELSE IF dest >= Len(m.Recipients)
        THEN Panic(m)
        ELSE LET recipient == m.Recipients[dest + 1]
             IN  IF ~Accepts(fail, 1)
                 THEN Ret("nil", "error", <<>>, m)
                 ELSE Ret("confirming", "nil",
                          <<Sent("ReplyToNested", InvitationMsgType, recipient.MyDID,
                                 recipient.TheirDID, m.ThreadID, "Invitation")>>, m)

deliveringExecuteInbound(fail, m) ==
    LET a == getApproveFromMsg(m.Msg)
        dest == toDestIDx(m.IntroduceeIndex)
    IN  IF a.ok /\ ~a.approve
        THEN Ret("abandoning", "nil", <<>>, m)
        ELSE IF isSkipProposal(m)
        THEN deliveringSkipInvitation(fail, m, m.Recipients)
        ELSE IF ~m.Invitation
        THEN Ret("abandoning", "nil", <<>>, m)
        ELSE IF dest >= Len(m.Recipients)
        THEN Panic(m)
        ELSE LET recipient == m.Recipients[dest + 1]
             IN  IF ~Accepts(fail, 1)
                 THEN Ret("nil", "error", <<>>, m)
                 ELSE Ret("confirming", "nil",
                          <<Sent("ReplyToNested", InvitationMsgType, recipient.MyDID,
                                 recipient.TheirDID, m.ThreadID, "Invitation")>>, m)

deliveringExecuteOutbound(fail, m) == Ret("nil", "error", <<>>, m)

\* after the ack confirming hands the thread to abandoning
confirmingExecuteInbound_ToAbandoning(fail, m) ==
    IF m.IntroduceeIndex >= Len(m.Recipients)
    THEN Panic(m)
    ELSE LET recipient == m.Recipients[m.IntroduceeIndex + 1]
         IN  IF ~Accepts(fail, 1)
             THEN Ret("nil", "error", <<>>, m)
             ELSE Ret("abandoning", "nil",
                      <<Sent("Send", AckMsgType, recipient.MyDID,
                             recipient.TheirDID, m.ThreadID, NoBody)>>, m)

confirmingExecuteInbound(fail, m) ==
    IF m.IntroduceeIndex >= Len(m.Recipients)
    THEN Panic(m)
    ELSE LET recipient == m.Recipients[m.IntroduceeIndex + 1]
         IN  IF ~Accepts(fail, 1)
             THEN Ret("nil", "error", <<>>, m)
             ELSE Ret("done", "nil",
                      <<Sent("Send", AckMsgType, recipient.MyDID,
                             recipient.TheirDID, m.ThreadID, NoBody)>>, m)

confirmingExecuteOutbound(fail, m) == Ret("nil", "error", <<>>, m)

\* a disapproval is reported to the first recipient whatever the wait counter
abandoningExecuteInbound_NoShortCircuit(fail, m) ==
    LET a == getApproveFromMsg(m.Msg)
        filled == IF m.Msg.type = ResponseMsgType
                  THEN fillRecipient(m.Recipients, m)
                  ELSE IF m.Msg.type = RequestMsgType
                       THEN fillRecipient(<<>>, m)
                       ELSE <<>>
        after == IF m.Msg.type = ResponseMsgType /\ Len(m.Recipients) > 0
                 THEN [m EXCEPT !.Recipients = filled]
                 ELSE m
    IN  IF a.ok /\ ~a.approve
        THEN sendProblemReport(fail, after, SubSeq(filled, 1, 1))
        ELSE sendProblemReport(fail, after, filled)

\* the recipient list is not cut to its first element on a disapproval
abandoningExecuteInbound_NoTruncation(fail, m) ==
    LET a == getApproveFromMsg(m.Msg)
        filled == IF m.Msg.type = ResponseMsgType
                  THEN fillRecipient(m.Recipients, m)
                  ELSE IF m.Msg.type = RequestMsgType
                       THEN fillRecipient(<<>>, m)
                       ELSE <<>>
        after == IF m.Msg.type = ResponseMsgType /\ Len(m.Recipients) > 0
                 THEN [m EXCEPT !.Recipients = filled]
                 ELSE m
    IN  IF a.ok /\ ~a.approve /\ m.WaitCount = 1
        THEN Ret("done", "nil", <<>>, after)
        ELSE sendProblemReport(fail, after, filled)

abandoningExecuteInbound(fail, m) ==
    LET a == getApproveFromMsg(m.Msg)
        \* the local recipients after the two type tests
        filled == IF m.Msg.type = ResponseMsgType
                  THEN fillRecipient(m.Recipients, m)
                  ELSE IF m.Msg.type = RequestMsgType
                       THEN fillRecipient(<<>>, m)
                       ELSE <<>>
        \* the recipients of the context share their elements with the list
        \* fillRecipient was given
        after == IF m.Msg.type = ResponseMsgType /\ Len(m.Recipients) > 0
                 THEN [m EXCEPT !.Recipients = filled]
                 ELSE m
    IN  IF a.ok /\ ~a.approve
        THEN IF m.WaitCount = 1
             THEN Ret("done", "nil", <<>>, after)
             ELSE sendProblemReport(fail, after, SubSeq(filled, 1, 1))
        ELSE sendProblemReport(fail, after, filled)

abandoningExecuteOutbound(fail, m) == Ret("nil", "error", <<>>, m)

\* the approve field of the reply is the disapproval flag itself
decidingExecuteInbound_ApproveIsFlag(fail, m) ==
    LET st == IF m.disapprove THEN "abandoning" ELSE "waiting"
        inv == IF m.dependency # "nil" THEN "dependency" ELSE "nil"
    IN  IF ~Accepts(fail, 1)
        THEN Ret(st, "error", <<>>, m)
        ELSE Ret(st, "nil",
                 <<Sent("ReplyTo", ResponseMsgType, EmptyDID, EmptyDID, MsgID,
                        <<inv, m.disapprove>>)>>, m)

decidingExecuteInbound(fail, m) ==
    LET st == IF m.disapprove THEN "abandoning" ELSE "waiting"
        inv == IF m.dependency # "nil" THEN "dependency" ELSE "nil"
    IN  IF ~Accepts(fail, 1)
        THEN Ret(st, "error", <<>>, m)
        ELSE Ret(st, "nil",
                 <<Sent("ReplyTo", ResponseMsgType, EmptyDID, EmptyDID, MsgID,
                        <<inv, ~m.disapprove>>)>>, m)

decidingExecuteOutbound(fail, m) == Ret("nil", "error", <<>>, m)

\* waiting hands the thread back to arranging
waitingExecuteInbound_Restarts(fail, m) == Ret("arranging", "nil", <<>>, m)

waitingExecuteInbound(fail, m) == Ret("noOp", "nil", <<>>, m)

waitingExecuteOutbound(fail, m) == Ret("nil", "error", <<>>, m)

requestingExecuteInbound(fail, m) == Ret("nil", "error", <<>>, m)

\* the triggering message goes out from the peer DID to the own DID
requestingExecuteOutbound_Swapped(fail, m) ==
    IF ~Accepts(fail, 1)
    THEN Ret("noOp", "error", <<>>, m)
    ELSE Ret("noOp", "nil",
             <<Sent("Send", m.Msg.type, m.theirDID, m.myDID, m.ThreadID, "Msg")>>, m)

requestingExecuteOutbound(fail, m) ==
    IF ~Accepts(fail, 1)
    THEN Ret("noOp", "error", <<>>, m)
    ELSE Ret("noOp", "nil", <<Outbound(m)>>, m)

\* dispatch on the state's type
ExecuteInbound(s, fail, m) ==
    CASE s = "noOp" -> noOpExecuteInbound(fail, m)
      [] s = "start" -> startExecuteInbound(fail, m)
      [] s = "done" -> doneExecuteInbound(fail, m)
      [] s = "arranging" -> arrangingExecuteInbound(fail, m)
      [] s = "delivering" -> deliveringExecuteInbound(fail, m)
      [] s = "confirming" -> confirmingExecuteInbound(fail, m)
      [] s = "abandoning" -> abandoningExecuteInbound(fail, m)
      [] s = "deciding" -> decidingExecuteInbound(fail, m)
      [] s = "waiting" -> waitingExecuteInbound(fail, m)
      [] s = "requesting" -> requestingExecuteInbound(fail, m)

ExecuteOutbound(s, fail, m) ==
    CASE s = "noOp" -> noOpExecuteOutbound(fail, m)
      [] s = "start" -> startExecuteOutbound(fail, m)
      [] s = "done" -> doneExecuteOutbound(fail, m)
      [] s = "arranging" -> arrangingExecuteOutbound(fail, m)
      [] s = "delivering" -> deliveringExecuteOutbound(fail, m)
      [] s = "confirming" -> confirmingExecuteOutbound(fail, m)
      [] s = "abandoning" -> abandoningExecuteOutbound(fail, m)
      [] s = "deciding" -> decidingExecuteOutbound(fail, m)
      [] s = "waiting" -> waitingExecuteOutbound(fail, m)
      [] s = "requesting" -> requestingExecuteOutbound(fail, m)

\* ------------------------------------------- the connection store (didexchange)
myNSPrefix == "my"

theirNSPrefix == "their"

stateNameCompleted == "completed"

ConnIDs == {"id1", "id2"}

ConnStates == {"invited", "requested", "responded", stateNameCompleted}

ConnNum(id) == IF id = "id1" THEN 1 ELSE 2

ThreadOf(id) == IF id = "id1" THEN "thid1" ELSE "thid2"

\* the first connection is created from an inbound message, the second from
\* an outbound one
NamespaceOf(id) == IF id = "id1" THEN theirNSPrefix ELSE myNSPrefix

MyDIDOf(id) == <<"my", ConnNum(id)>>

TheirDIDOf(id) == <<"their", ConnNum(id)>>

KeysOf(id) == << <<"key", ConnNum(id)>> >>

DIDs == {MyDIDOf(id) : id \in ConnIDs} \cup {TheirDIDOf(id) : id \in ConnIDs}

\* connection.Record values of one connection; the second connection is
\* only ever saved completed and without a DID of its own
RecordsOf(id) ==
    [ConnectionID : {id}, ThreadID : {ThreadOf(id)}, Namespace : {NamespaceOf(id)},
     State : IF id = "id1" THEN ConnStates \ {"invited"} ELSE {stateNameCompleted},
     MyDID : IF id = "id1" THEN {EmptyDID, MyDIDOf(id)} ELSE {EmptyDID},
     TheirDID : {TheirDIDOf(id)}, RecipientKeys : {KeysOf(id)}]

Records == UNION {RecordsOf(id) : id \in ConnIDs}

NoRecord == [ConnectionID |-> "nil"]

NoEntry == [resolved |-> FALSE]

DIDEntry(keys) == [resolved |-> TRUE, keys |-> keys]

\* what can go wrong in one call: the store write, the DID resolution, nothing
Faults == {"none", "write", "resolve"}

\* newConnectionStore: an empty recorder and an empty DID store
newConnectionStore ==
    [records |-> [id \in ConnIDs |-> NoRecord],
     atState |-> [k \in ConnIDs \X ConnStates |-> NoRecord],
     mappings |-> {},
     dids    |-> [d \in DIDs |-> NoEntry]]

\* Recorder.SaveConnectionRecord: the record under its connection id, and
\* under its connection id and state
SaveConnectionRecord(c, record, fault) ==
    IF fault = "write"
    THEN [c |-> c, err |-> "write"]
    ELSE [c |-> [c EXCEPT !.records[record.ConnectionID] = record,
                          !.atState[<<record.ConnectionID, record.State>>] = record],
          err |-> "nil"]

\* Recorder.SaveConnectionRecordWithMappings: the record, and the namespaced
\* thread-to-connection entry
SaveConnectionRecordWithMappings(c, record, fault) ==
    LET w == SaveConnectionRecord(c, record, fault)
    IN  IF w.err # "nil"
        THEN w
        ELSE [c |-> [w.c EXCEPT !.mappings =
                        @ \cup {<<record.Namespace, record.ThreadID, record.ConnectionID>>}],
              err |-> "nil"]

\* did.Store.SaveDIDByResolving: resolve the DID, store the document
SaveDIDByResolving(c, did, keys, fault) ==
    IF fault = "resolve"
    THEN [c |-> c, err |-> "resolve"]
    ELSE [c |-> [c EXCEPT !.dids[did] = DIDEntry(keys)], err |-> "nil"]

Resolution(did, keys) == [did |-> did, keys |-> keys]

SaveRet(c, err, resolutions) == [c |-> c, err |-> err, resolutions |-> resolutions]

\* the DID is resolved whatever the state of the record
saveConnectionRecord_AlwaysResolves(c, record, fault) ==
    LET w == SaveConnectionRecord(c, record, fault)
    IN  IF w.err # "nil"
        THEN SaveRet(w.c, w.err, <<>>)
        ELSE LET d == SaveDIDByResolving(w.c, record.TheirDID, record.RecipientKeys, fault)
             IN  SaveRet(d.c, d.err, <<Resolution(record.TheirDID, record.RecipientKeys)>>)

\* the DID of a completed record is never resolved
saveConnectionRecord_NeverResolves(c, record, fault) ==
    LET w == SaveConnectionRecord(c, record, fault)
    IN  SaveRet(w.c, w.err, <<>>)

\* the error of the resolution is dropped
saveConnectionRecord_DropsResolveError(c, record, fault) ==
    LET w == SaveConnectionRecord(c, record, fault)
    IN  IF w.err # "nil"
        THEN SaveRet(w.c, w.err, <<>>)
        ELSE IF record.State = stateNameCompleted
             THEN LET d == SaveDIDByResolving(w.c, record.TheirDID, record.RecipientKeys, fault)
                  IN  SaveRet(d.c, "nil", <<Resolution(record.TheirDID, record.RecipientKeys)>>)
             ELSE SaveRet(w.c, "nil", <<>>)

\* the error of the write is dropped
saveConnectionRecord_DropsWriteError(c, record, fault) ==
    LET w == SaveConnectionRecord(c, record, fault)
    IN  IF record.State = stateNameCompleted
        THEN LET d == SaveDIDByResolving(w.c, record.TheirDID, record.RecipientKeys, fault)
             IN  SaveRet(d.c, d.err, <<Resolution(record.TheirDID, record.RecipientKeys)>>)
        ELSE SaveRet(w.c, "nil", <<>>)

\* every record is saved under the key of the first connection
saveConnectionRecord_UnderOneKey(c, record, fault) ==
    LET w == SaveConnectionRecord(c, [record EXCEPT !.ConnectionID = "id1"], fault)
    IN  IF w.err # "nil"
        THEN SaveRet(w.c, w.err, <<>>)
        ELSE IF record.State = stateNameCompleted
             THEN LET d == SaveDIDByResolving(w.c, record.TheirDID, record.RecipientKeys, fault)
                  IN  SaveRet(d.c, d.err, <<Resolution(record.TheirDID, record.RecipientKeys)>>)
             ELSE SaveRet(w.c, "nil", <<>>)

\* a failed resolution takes the written record back
saveConnectionRecord_RollsBack(c, record, fault) ==
    LET w == SaveConnectionRecord(c, record, fault)
    IN  IF w.err # "nil"
        THEN SaveRet(w.c, w.err, <<>>)
        ELSE IF record.State = stateNameCompleted
             THEN LET d == SaveDIDByResolving(w.c, record.TheirDID, record.RecipientKeys, fault)
                  IN  SaveRet(IF d.err # "nil" THEN c ELSE d.c, d.err,
                              <<Resolution(record.TheirDID, record.RecipientKeys)>>)
             ELSE SaveRet(w.c, "nil", <<>>)

\* saveConnectionRecord: save the record; for a completed record resolve and
\* save the DID of the other party with the record's recipient keys
saveConnectionRecord(c, record, fault) ==
    LET w == SaveConnectionRecord(c, record, fault)
    IN  IF w.err # "nil"
        THEN SaveRet(w.c, w.err, <<>>)
        ELSE IF record.State = stateNameCompleted
             THEN LET d == SaveDIDByResolving(w.c, record.TheirDID, record.RecipientKeys, fault)
                  IN  SaveRet(d.c, d.err, <<Resolution(record.TheirDID, record.RecipientKeys)>>)
             ELSE SaveRet(w.c, "nil", <<>>)

\* the own DID is resolved although the save failed
saveConnectionRecordWithMapping_ResolvesAfterFailure(c, record, fault) ==
    LET w == SaveConnectionRecordWithMappings(c, record, fault)
    IN  IF record.MyDID # EmptyDID
        THEN LET d == SaveDIDByResolving(w.c, record.MyDID, <<>>, fault)
             IN  SaveRet(d.c, IF w.err # "nil" THEN w.err ELSE d.err,
                         <<Resolution(record.MyDID, <<>>)>>)
        ELSE SaveRet(w.c, w.err, <<>>)

\* saveConnectionRecordWithMapping: save the record with its mappings; resolve
\* and save the own DID when the record has one
saveConnectionRecordWithMapping(c, record, fault) ==
    LET w == SaveConnectionRecordWithMappings(c, record, fault)
    IN  IF w.err # "nil"
        THEN SaveRet(w.c, w.err, <<>>)
        ELSE IF record.MyDID # EmptyDID
             THEN LET d == SaveDIDByResolving(w.c, record.MyDID, <<>>, fault)
                  IN  SaveRet(d.c, d.err, <<Resolution(record.MyDID, <<>>)>>)
             ELSE SaveRet(w.c, "nil", <<>>)

\* what a lookup returns: the record or nil, and the error
GetRet(record, err) == [record |-> record, err |-> err]

ErrConnectionNotFound == "connection not found"

ErrGet == "query connection error"

\* a lookup of an unknown connection succeeds with an empty record
GetConnection_EmptySuccess(c, id, readFails) ==
    IF readFails
    THEN GetRet(NoRecord, ErrGet)
    ELSE GetRet(c.records[id], "nil")

\* Client.GetConnection: the record stored under the connection id
GetConnection(c, id, readFails) ==
    IF readFails
    THEN GetRet(NoRecord, ErrGet)
    ELSE IF c.records[id] = NoRecord
         THEN GetRet(NoRecord, ErrConnectionNotFound)
         ELSE GetRet(c.records[id], "nil")

\* Client.GetConnectionAtState: the record stored under the connection id and
\* the state
GetConnectionAtState(c, id, state, readFails) ==
    IF readFails
    THEN GetRet(NoRecord, ErrGet)
    ELSE IF c.atState[<<id, state>>] = NoRecord
         THEN GetRet(NoRecord, ErrConnectionNotFound)
         ELSE GetRet(c.atState[<<id, state>>], "nil")

\* -------------------------------------------------------- the state machine
VARIABLES
    persisted,  \* the state name stored for the thread
    md,         \* the context of the call in progress (or of the last call)
    trigger,    \* "inbound" or "outbound"
    current,    \* the state the followup loop executes next
    result,     \* "idle", "running", "ok", "illegal", "error", "panic", "direct"
    sent,       \* the messages the messenger accepted during the call
    executed,   \* the names of the states whose execute operation was run
    last,       \* the outcome of the most recent execute operation
    call,       \* the persisted state and the candidate of the call
    given,      \* the context and the messenger a direct execute was given
    cs,         \* the connection store: records, mappings, DID documents
    lastOp,     \* the call on the connection store whose outcome is at hand
    hist,       \* what the calls on the connection store did so far
    pc,         \* where each thread of the connection exchange stands
    conn,       \* the connection record each thread works on
    actions,    \* the number of action events emitted for each thread
    decision,   \* what the handler answered: "none", "continue", "stop"
    outbox,     \* the messages each thread has sent
    msgQ,       \* the events waiting in the message-event channel
    published,  \* the post-state events published so far
    delivered,  \* the event the application received last, and its lookup
    saveLog     \* the saves of each thread: state, error, DID entries created

engineVars == <<persisted, md, trigger, current, result, sent, executed, last, call, given>>

storeVars == <<cs, lastOp, hist>>

exchVars == <<pc, conn, actions, decision, outbox, msgQ, published, delivered, saveLog>>

vars == <<engineVars, storeVars, exchVars>>

Triggers == {"inbound", "outbound"}

NoStep == [st |-> "nil", followup |-> "nil", err |-> "nil", msgs |-> <<>>]

NoCall == [cur |-> "nil", next |-> "nil"]

NoGiven == [m |-> NoContext, fail |-> 0]

\* the protocol's state registry
stateFromName(name) == CHOOSE s \in StateTypes : Name(s) = name

Execute(s, trig, fail, m) ==
    IF trig = "inbound" THEN ExecuteInbound(s, fail, m) ELSE ExecuteOutbound(s, fail, m)

NoDelivery == [id |-> "nil", state |-> "nil", err |-> "nil", got |-> NoRecord]

NoStoreOp ==
    [kind |-> "none", record |-> NoRecord, id |-> "nil", state |-> "nil",
     before |-> newConnectionStore, err |-> "nil", resolutions |-> <<>>,
     got |-> NoRecord, fault |-> "none", prevKind |-> "none",
     prevRecord |-> NoRecord, prevErr |-> "nil"]

Init ==
    /\ persisted = stateNameStart
    /\ md = NoContext
    /\ trigger = "inbound"
    /\ current = "noOp"
    /\ result = "idle"
    /\ sent = <<>>
    /\ executed = <<>>
    /\ last = NoStep
    /\ call = NoCall
    /\ given = NoGiven
    /\ cs = newConnectionStore
    /\ lastOp = NoStoreOp
    /\ hist = [allOK |-> TRUE, mappedCompleted |-> FALSE]
    /\ pc = [t \in ConnIDs |-> "start"]
    /\ conn = [t \in ConnIDs |-> NoRecord]
    /\ actions = [t \in ConnIDs |-> 0]
    /\ decision = [t \in ConnIDs |-> "none"]
    /\ outbox = [t \in ConnIDs |-> <<>>]
    /\ msgQ = <<>>
    /\ published = {}
    /\ delivered = NoDelivery
    /\ saveLog = [t \in ConnIDs |-> <<>>]

\* the candidate is executed without asking the persisted state's predicate
Transition_Unchecked(next, trig, m) ==
    /\ result = "idle"
    /\ call' = [cur |-> persisted, next |-> Name(next)]
    /\ trigger' = trig
    /\ sent' = <<>>
    /\ executed' = <<>>
    /\ last' = NoStep
    /\ current' = next
    /\ result' = "running"
    /\ md' = m
    /\ UNCHANGED <<persisted, given, storeVars, exchVars>>

\* transition(currentState, trigger, context) up to the first execution:
\* the candidate is checked against the persisted state's predicate.
Transition(next, trig, m) ==
    /\ result = "idle"
    /\ call' = [cur |-> persisted, next |-> Name(next)]
    /\ trigger' = trig
    /\ sent' = <<>>
    /\ executed' = <<>>
    /\ last' = NoStep
    /\ current' = next
    /\ IF CanTransitionTo(stateFromName(persisted), next)
       THEN result' = "running" /\ md' = m
       ELSE result' = "illegal" /\ md' = NoContext
    /\ UNCHANGED <<persisted, given, storeVars, exchVars>>

\* a failing step undoes the call: the stored name and the messages go back
Step_RollsBack(fail) ==
    /\ result = "running"
    /\ LET r == Execute(current, trigger, fail, md)
       IN  /\ last' = [st |-> current, followup |-> r.followup, err |-> r.err,
                       msgs |-> r.msgs]
           /\ md' = r.m
           /\ executed' = Append(executed, Name(current))
           /\ IF r.err # "nil"
              THEN /\ result' = r.err
                   /\ persisted' = call.cur
                   /\ sent' = <<>>
                   /\ UNCHANGED current
              ELSE /\ persisted' = Name(current)
                   /\ sent' = sent \o r.msgs
                   /\ IF r.followup = "noOp"
                      THEN result' = "ok" /\ UNCHANGED current
                      ELSE result' = "running" /\ current' = r.followup
    /\ UNCHANGED <<trigger, call, given, storeVars, exchVars>>

\* the loop leaves before storing the state whose followup is noOp
Step_LastNotStored(fail) ==
    /\ result = "running"
    /\ LET r == Execute(current, trigger, fail, md)
       IN  /\ last' = [st |-> current, followup |-> r.followup, err |-> r.err,
                       msgs |-> r.msgs]
           /\ sent' = sent \o r.msgs
           /\ md' = r.m
           /\ executed' = Append(executed, Name(current))
           /\ IF r.err # "nil"
              THEN /\ result' = r.err
                   /\ UNCHANGED <<persisted, current>>
              ELSE IF r.followup = "noOp"
                   THEN result' = "ok" /\ UNCHANGED <<persisted, current>>
                   ELSE /\ persisted' = Name(current)
                        /\ result' = "running"
                        /\ current' = r.followup
    /\ UNCHANGED <<trigger, call, given, storeVars, exchVars>>

\* One turn of the followup loop: execute the state, stop on an error,
\* otherwise store its name and go on with the followup unless it is noOp.
Step(fail) ==
    /\ result = "running"
    /\ LET r == Execute(current, trigger, fail, md)
       IN  /\ last' = [st |-> current, followup |-> r.followup, err |-> r.err,
                       msgs |-> r.msgs]
           /\ sent' = sent \o r.msgs
           /\ md' = r.m
           /\ executed' = Append(executed, Name(current))
           /\ IF r.err # "nil"
              THEN /\ result' = r.err
                   /\ UNCHANGED <<persisted, current>>
              ELSE /\ persisted' = Name(current)
                   /\ IF r.followup = "noOp"
                      THEN result' = "ok" /\ UNCHANGED current
                      ELSE result' = "running" /\ current' = r.followup
    /\ UNCHANGED <<trigger, call, given, storeVars, exchVars>>

\* The call returns to its caller: the transient context is released, the
\* stored state name stays.
Return ==
    /\ result \in {"ok", "illegal", "error", "panic"}
    /\ result' = "idle"
    /\ md' = NoContext
    /\ trigger' = "inbound"
    /\ current' = "noOp"
    /\ sent' = <<>>
    /\ executed' = <<>>
    /\ last' = NoStep
    /\ call' = NoCall
    /\ UNCHANGED <<persisted, given, storeVars, exchVars>>

Next ==
    \/ /\ result = "idle"
       /\ \E next \in StateTypes, trig \in Triggers, m \in Contexts :
            Transition(next, trig, m)
    \/ /\ result = "running"
       /\ \E fail \in 0..MaxRecipients : Step(fail)
    \/ Return

Spec == Init /\ [][Next]_vars

\* An execute operation called on its own, on any state and any context.
ExecOp(s, trig, fail, m) ==
    /\ result = "idle"
    /\ LET r == Execute(s, trig, fail, m)
       IN  /\ last' = [st |-> s, followup |-> r.followup, err |-> r.err,
                       msgs |-> r.msgs]
           /\ sent' = r.msgs
           /\ md' = r.m
    /\ current' = s
    /\ trigger' = trig
    /\ executed' = <<Name(s)>>
    /\ result' = "direct"
    /\ given' = [m |-> m, fail |-> fail]
    /\ UNCHANGED <<persisted, call, storeVars, exchVars>>

NextExec ==
    /\ result = "idle"
    /\ \E s \in StateTypes, trig \in Triggers, fail \in 0..MaxRecipients, m \in Contexts :
        ExecOp(s, trig, fail, m)

SpecExec == Init /\ [][NextExec]_vars

\* ------------------------------------------- calls on the connection store
SaveKinds == {"save", "saveWithMapping"}

\* a save call: the store after it, what it returned, what it resolved
SaveCall(kind, r, record, fault) ==
    /\ cs' = r.c
    /\ lastOp' = [NoStoreOp EXCEPT !.kind = kind, !.record = record,
                                   !.id = record.ConnectionID,
                                   !.state = record.State, !.before = cs,
                                   !.err = r.err, !.resolutions = r.resolutions,
                                   !.fault = fault]
    /\ hist' = [allOK |-> hist.allOK /\ r.err = "nil",
                mappedCompleted |-> \/ hist.mappedCompleted
                                    \/ /\ kind = "saveWithMapping"
                                       /\ record.State = stateNameCompleted]

SaveOp(record, fault) ==
    /\ lastOp.kind = "none"
    /\ SaveCall("save", saveConnectionRecord(cs, record, fault), record, fault)
    /\ UNCHANGED <<engineVars, exchVars>>

SaveWithMappingOp(record, fault) ==
    /\ lastOp.kind = "none"
    /\ SaveCall("saveWithMapping", saveConnectionRecordWithMapping(cs, record, fault),
                record, fault)
    /\ UNCHANGED <<engineVars, exchVars>>

\* a lookup call, on its own or right after a save
GetCall(kind, r, id, state, readFails) ==
    /\ lastOp' = [NoStoreOp EXCEPT !.kind = kind, !.id = id, !.state = state,
                                   !.before = cs, !.err = r.err, !.got = r.record,
                                   !.fault = IF readFails THEN "read" ELSE "none",
                                   !.prevKind = lastOp.kind,
                                   !.prevRecord = lastOp.record,
                                   !.prevErr = lastOp.err]
    /\ UNCHANGED <<cs, hist>>

GetOp(id, readFails) ==
    /\ \/ lastOp.kind = "none"
       \/ lastOp.kind \in SaveKinds /\ lastOp.id = id
    /\ GetCall("get", GetConnection(cs, id, readFails), id, "nil", readFails)
    /\ UNCHANGED <<engineVars, exchVars>>

GetAtStateOp(id, state, readFails) ==
    /\ lastOp.kind = "none"
    /\ GetCall("getAtState", GetConnectionAtState(cs, id, state, readFails), id, state,
               readFails)
    /\ UNCHANGED <<engineVars, exchVars>>

\* the caller has looked at the outcome of its call
Forget ==
    /\ lastOp.kind # "none"
    /\ lastOp' = NoStoreOp
    /\ UNCHANGED <<cs, hist, engineVars, exchVars>>

NextStore ==
    \/ /\ lastOp.kind = "none"
       /\ \E record \in Records, fault \in Faults : SaveOp(record, fault)
    \/ /\ lastOp.kind = "none"
       /\ \E record \in Records, fault \in Faults : SaveWithMappingOp(record, fault)
    \/ /\ lastOp.kind \in {"none"} \cup SaveKinds
       /\ \E id \in ConnIDs, readFails \in BOOLEAN : GetOp(id, readFails)
    \/ /\ lastOp.kind = "none"
       /\ \E id \in ConnIDs, state \in ConnStates, readFails \in BOOLEAN :
            GetAtStateOp(id, state, readFails)
    \/ Forget

SpecStore == Init /\ [][NextStore]_vars

\* --------------------------------------------- the connection exchange
\* Two exchanges side by side. The first connection is the inviter's: an
\* inbound Request that names an issued invitation, the approval of the
\* application, the Response, the Ack. The second is the invitee's: an
\* inbound Invitation, the approval, the Request, the Response, the Ack.
MaxQueue == 2

Inviter(t) == NamespaceOf(t) = theirNSPrefix

\* the state of the record created by the first inbound message
CreatedState(t) == IF Inviter(t) THEN "requested" ELSE "invited"

\* the state executed once the application has approved
ApprovedState(t) == IF Inviter(t) THEN "responded" ELSE "requested"

\* the message that state sends
ApprovedMsg(t) == IF Inviter(t) THEN ResponseMsgType ELSE RequestMsgType

\* the state the next inbound message (Ack, Response) leads to
RepliedState(t) == IF Inviter(t) THEN stateNameCompleted ELSE "responded"

\* the record created for the first inbound message: the own DID is made
\* only when the Request or the Response is prepared
CreatedRecord(t) ==
    [ConnectionID |-> t, ThreadID |-> ThreadOf(t), Namespace |-> NamespaceOf(t),
     State |-> CreatedState(t), MyDID |-> EmptyDID, TheirDID |-> TheirDIDOf(t),
     RecipientKeys |-> KeysOf(t)]

Event(t, state) == <<t, state>>

\* the DID entries that c holds and before did not
Created(before, c) == {d \in DIDs : c.dids[d].resolved /\ ~before.dids[d].resolved}

Logged(t, r, record) ==
    [saveLog EXCEPT ![t] = Append(@, [state |-> record.State, err |-> r.err,
                                      created |-> Created(cs, r.c)])]

\* the first inbound message of the thread (Request with the invitation as
\* parent, or Invitation): the record is created with its thread mapping
HandleInbound(t, fault) ==
    /\ pc[t] = "start"
    /\ LET r == saveConnectionRecordWithMapping(cs, CreatedRecord(t), fault)
       IN  /\ cs' = r.c
           /\ saveLog' = Logged(t, r, CreatedRecord(t))
           /\ IF r.err = "nil"
              THEN pc' = [pc EXCEPT ![t] = "publish"] /\
                   conn' = [conn EXCEPT ![t] = CreatedRecord(t)]
              ELSE pc' = [pc EXCEPT ![t] = "failed"] /\ UNCHANGED conn
    /\ UNCHANGED <<actions, decision, outbox, msgQ, published, delivered>>
    /\ UNCHANGED <<engineVars, lastOp, hist>>

\* where the thread goes once the state of its record is published
AfterPublish(t) ==
    IF conn[t].State = CreatedState(t) THEN "approval"
    ELSE IF conn[t].State = ApprovedState(t) THEN "idle"
    ELSE IF conn[t].State = stateNameCompleted THEN "done"
    ELSE "followup"

\* the post-state event of the state just persisted: the event is dropped
\* when the channel is full
Publish(t) ==
    /\ pc[t] = "publish"
    /\ published' = published \cup {Event(t, conn[t].State)}
    /\ msgQ' = IF Len(msgQ) < MaxQueue
               THEN Append(msgQ, Event(t, conn[t].State))
               ELSE msgQ
    /\ pc' = [pc EXCEPT ![t] = AfterPublish(t)]
    /\ UNCHANGED <<cs, conn, actions, decision, outbox, delivered, saveLog>>
    /\ UNCHANGED <<engineVars, lastOp, hist>>

\* the action event is raised and the thread goes on without the answer
RaiseAction_NoWait(t) ==
    /\ pc[t] = "approval"
    /\ actions' = [actions EXCEPT ![t] = @ + 1]
    /\ pc' = [pc EXCEPT ![t] = "approved"]
    /\ UNCHANGED <<cs, conn, decision, outbox, msgQ, published, delivered, saveLog>>
    /\ UNCHANGED <<engineVars, lastOp, hist>>

\* the action event for the state that needs approval: the thread waits for
\* the answer
RaiseAction(t) ==
    /\ pc[t] = "approval"
    /\ actions' = [actions EXCEPT ![t] = @ + 1]
    /\ pc' = [pc EXCEPT ![t] = "waiting"]
    /\ UNCHANGED <<cs, conn, decision, outbox, msgQ, published, delivered, saveLog>>
    /\ UNCHANGED <<engineVars, lastOp, hist>>

Continue(t) ==
    /\ pc[t] = "waiting"
    /\ decision' = [decision EXCEPT ![t] = "continue"]
    /\ pc' = [pc EXCEPT ![t] = "approved"]
    /\ UNCHANGED <<cs, conn, actions, outbox, msgQ, published, delivered, saveLog>>
    /\ UNCHANGED <<engineVars, lastOp, hist>>

\* Client.AcceptExchangeRequest: the inviter's application continues
AcceptExchangeRequest(t) == Inviter(t) /\ Continue(t)

\* Client.AcceptInvitation: the invitee's application continues
AcceptInvitation(t) == ~Inviter(t) /\ Continue(t)

\* the handler stops the thread with an error
Stop(t) ==
    /\ pc[t] = "waiting"
    /\ decision' = [decision EXCEPT ![t] = "stop"]
    /\ pc' = [pc EXCEPT ![t] = "stopped"]
    /\ UNCHANGED <<cs, conn, actions, outbox, msgQ, published, delivered, saveLog>>
    /\ UNCHANGED <<engineVars, lastOp, hist>>

\* the approved state is executed: the Response or the Request is sent under
\* a new own DID
ExecuteApproved(t) ==
    /\ pc[t] = "approved"
    /\ outbox' = [outbox EXCEPT ![t] = Append(@, ApprovedMsg(t))]
    /\ conn' = [conn EXCEPT ![t].State = ApprovedState(t), ![t].MyDID = MyDIDOf(t)]
    /\ pc' = [pc EXCEPT ![t] = "persist"]
    /\ UNCHANGED <<cs, actions, decision, msgQ, published, delivered, saveLog>>
    /\ UNCHANGED <<engineVars, lastOp, hist>>

\* the record of the executed state is saved
Persist(t, fault) ==
    /\ pc[t] = "persist"
    /\ LET r == saveConnectionRecord(cs, conn[t], fault)
       IN  /\ cs' = r.c
           /\ saveLog' = Logged(t, r, conn[t])
           /\ pc' = [pc EXCEPT ![t] = IF r.err = "nil" THEN "publish" ELSE "failed"]
    /\ UNCHANGED <<conn, actions, decision, outbox, msgQ, published, delivered>>
    /\ UNCHANGED <<engineVars, lastOp, hist>>

\* the next inbound message of the thread (the Ack for the inviter, the
\* Response for the invitee): no approval is asked
HandleInboundReply(t) ==
    /\ pc[t] = "idle"
    /\ conn' = [conn EXCEPT ![t].State = RepliedState(t)]
    /\ pc' = [pc EXCEPT ![t] = "persist"]
    /\ UNCHANGED <<cs, actions, decision, outbox, msgQ, published, delivered, saveLog>>
    /\ UNCHANGED <<engineVars, lastOp, hist>>

\* the invitee's followup of responded: the Ack is sent, the connection is
\* completed
ExecuteCompleted(t) ==
    /\ pc[t] = "followup"
    /\ outbox' = [outbox EXCEPT ![t] = Append(@, AckMsgType)]
    /\ conn' = [conn EXCEPT ![t].State = stateNameCompleted]
    /\ pc' = [pc EXCEPT ![t] = "persist"]
    /\ UNCHANGED <<cs, actions, decision, msgQ, published, delivered, saveLog>>
    /\ UNCHANGED <<engineVars, lastOp, hist>>

\* the application takes an event from its channel and looks the connection
\* up at the state the event names
Deliver ==
    /\ msgQ # <<>>
    /\ LET e == Head(msgQ)
           r == GetConnectionAtState(cs, e[1], e[2], FALSE)
       IN  delivered' = [id |-> e[1], state |-> e[2], err |-> r.err, got |-> r.record]
    /\ msgQ' = Tail(msgQ)
    /\ UNCHANGED <<cs, pc, conn, actions, decision, outbox, published, saveLog>>
    /\ UNCHANGED <<engineVars, lastOp, hist>>

\* the steps a thread takes by itself
ThreadStep(t) ==
    \/ Publish(t)
    \/ RaiseAction(t)
    \/ ExecuteApproved(t)
    \/ ExecuteCompleted(t)
    \/ \E fault \in Faults : Persist(t, fault)

NextExchange ==
    \/ \E t \in ConnIDs, fault \in Faults : HandleInbound(t, fault)
    \/ \E t \in ConnIDs : Publish(t)
    \/ \E t \in ConnIDs : RaiseAction(t)
    \/ \E t \in ConnIDs : AcceptExchangeRequest(t)
    \/ \E t \in ConnIDs : AcceptInvitation(t)
    \/ \E t \in ConnIDs : Stop(t)
    \/ \E t \in ConnIDs : ExecuteApproved(t)
    \/ \E t \in ConnIDs, fault \in Faults : Persist(t, fault)
    \/ \E t \in ConnIDs : HandleInboundReply(t)
    \/ \E t \in ConnIDs : ExecuteCompleted(t)
    \/ Deliver

SpecExchange == Init /\ [][NextExchange]_vars

\* a thread is scheduled as long as it has a step to take; the handler and
\* the application answer when they please
SpecExchangeFair == SpecExchange /\ \A t \in ConnIDs : WF_vars(ThreadStep(t))

\* ------------------------------------------------------------- properties
\* the transition table: the legal next state names of each state name
LegalNext ==
    [n \in {Name(s) : s \in StateTypes} |->
        CASE n = stateNameStart -> {stateNameArranging, stateNameDeciding,
                                    stateNameRequesting, stateNameAbandoning}
          [] n = stateNameArranging -> {stateNameArranging, stateNameDelivering,
                                        stateNameAbandoning, stateNameDone}
          [] n = stateNameDelivering -> {stateNameConfirming, stateNameDone,
                                         stateNameAbandoning}
          [] n = stateNameConfirming -> {stateNameDone, stateNameAbandoning}
          [] n = stateNameAbandoning -> {stateNameDone}
          [] n = stateNameDeciding -> {stateNameWaiting, stateNameDone,
                                       stateNameAbandoning}
          [] n = stateNameWaiting -> {stateNameDone, stateNameAbandoning}
          [] n = stateNameRequesting -> {stateNameDeciding, stateNameAbandoning,
                                         stateNameDone}
          [] n = stateNameDone -> {}
          [] n = stateNameNoop -> {}]

TenNames ==
    {"noop", "start", "done", "arranging", "delivering", "confirming",
     "abandoning", "deciding", "waiting", "requesting"}

Failed == {"illegal", "error", "panic"}

C2_IllegalTransitionChangesNothing ==
    (/\ call # NoCall
     /\ ~CanTransitionTo(stateFromName(call.cur), stateFromName(call.next)))
    => /\ result = "illegal"
       /\ executed = <<>>
       /\ last = NoStep
       /\ sent = <<>>
       /\ persisted = call.cur

\* a thread stored as arranging refuses confirming
C2_Witness ==
    /\ call = [cur |-> stateNameArranging, next |-> stateNameConfirming]
    /\ result = "illegal"
    /\ persisted = stateNameArranging

\* C3: when the followup loop of a call completes without error, the
\* persisted state is the name of the last state executed, the one whose
\* followup was the noOp sentinel.
C3_PersistsLastExecuted ==
    result = "ok"
    => /\ executed # <<>>
       /\ persisted = executed[Len(executed)]
       /\ persisted = Name(last.st)
       /\ last.followup = "noOp"
       /\ last.err = "nil"

\* a chain of four states run for a thread stored as arranging ends at done
C3_Witness ==
    /\ result = "ok"
    /\ call.cur = stateNameArranging
    /\ executed = <<stateNameArranging, stateNameDelivering,
                    stateNameAbandoning, stateNameDone>>
    /\ persisted = stateNameDone

\* C4: the persisted state of the thread is never the noOp sentinel's name,
\* whatever calls succeeded or failed before.
C4_NoopNeverPersisted == persisted # stateNameNoop

\* a call failed after an earlier one had completed
C4_Witness ==
    /\ result \in Failed
    /\ executed # <<>>
    /\ persisted \notin {stateNameStart, stateNameNoop}

\* C5: noOp's ExecuteInbound and ExecuteOutbound return an error and no
\* followup for every context, and the messenger accepts no message.
C5_NoOpAlwaysFails ==
    last.st = "noOp"
    => /\ last.err = "error"
       /\ last.followup = "nil"
       /\ last.msgs = <<>>
       /\ sent = <<>>

\* noOp executed on an inbound response with two recipients
C5_Witness ==
    /\ last.st = "noOp"
    /\ trigger = "inbound"
    /\ md.Msg.type = ResponseMsgType
    /\ Len(md.Recipients) = 2

\* C6 as claimed: once the thread is stored as done, a further inbound
\* message is processed without error, sends nothing and leaves done stored.
C6_FurtherInboundOnDoneSucceeds ==
    (call.cur = stateNameDone /\ trigger = "inbound")
    => /\ result \notin Failed
       /\ sent = <<>>
       /\ persisted = stateNameDone

\* C6: done's ExecuteInbound returns the noOp followup with no error and
\* sends no message, and done is then the persisted state; a further trigger
\* on a thread stored as done is refused as an illegal transition, with no
\* state executed, no message sent and done still stored.
C6_DoneYieldsNoOpAndIsTerminal ==
    /\ (last.st = "done" /\ trigger = "inbound")
       => /\ last.followup = "noOp"
          /\ last.err = "nil"
          /\ last.msgs = <<>>
          /\ result = "ok"
          /\ persisted = stateNameDone
    /\ call.cur = stateNameDone
       => /\ result = "illegal"
          /\ executed = <<>>
          /\ sent = <<>>
          /\ persisted = stateNameDone

\* an inbound message arrives on a thread stored as done
C6_Witness ==
    /\ call.cur = stateNameDone
    /\ call.next = stateNameDone
    /\ trigger = "inbound"
    /\ result = "illegal"
    /\ persisted = stateNameDone

\* C7: on an inbound Response for which the skip-proposal condition is true,
\* arranging's ExecuteInbound returns delivering with no error and sends no
\* message, whatever the wait counter, the recipients and the approve value.
C7_SkipProposalGoesToDelivering ==
    (/\ last.st = "arranging"
     /\ trigger = "inbound"
     /\ md.Msg.type = ResponseMsgType
     /\ md.dependency = "skip")
    => /\ last.followup = "delivering"
       /\ last.err = "nil"
       /\ last.msgs = <<>>
       /\ sent = <<>>

\* a disapproving skip-proposal response with no recipient at wait count 1
C7_Witness ==
    /\ last.st = "arranging"
    /\ trigger = "inbound"
    /\ md.Msg = [type |-> ResponseMsgType, decodes |-> TRUE, approve |-> FALSE]
    /\ md.dependency = "skip"
    /\ md.Recipients = <<>>
    /\ md.WaitCount = 1
    /\ last.followup = "delivering"

\* The introducer processes an inbound Response with approve = false at wait
\* count w: the call entered at arranging, delivering or abandoning.
DisapprovalAt(w) ==
    /\ result \in {"running", "ok", "error", "panic"}
    /\ trigger = "inbound"
    /\ md.Msg = [type |-> ResponseMsgType, decodes |-> TRUE, approve |-> FALSE]
    /\ md.WaitCount = w
    /\ call.next \in {stateNameArranging, stateNameDelivering, stateNameAbandoning}

\* C8: an inbound disapproving Response at wait count 1 never fails and
\* never sends a message, and the chain ends at done, which is stored.
C8_FirstDisapprovalSendsNothing ==
    DisapprovalAt(1)
    => /\ sent = <<>>
       /\ result \in {"running", "ok"}
       /\ \A i \in 1..Len(executed) :
             executed[i] \in {stateNameArranging, stateNameDelivering,
                              stateNameAbandoning, stateNameDone}
       /\ result = "ok"
          => /\ executed[Len(executed)] = stateNameDone
             /\ persisted = stateNameDone

\* arranging, abandoning, done with two recipients and nothing sent
C8_Witness ==
    /\ DisapprovalAt(1)
    /\ result = "ok"
    /\ executed = <<stateNameArranging, stateNameAbandoning, stateNameDone>>
    /\ Len(md.Recipients) = 2
    /\ sent = <<>>

\* the first recipient as abandoning addresses it: synthesized from the
\* message when the list is empty, else the (back-filled) first element
FirstRecipient ==
    IF md.Recipients = <<>>
    THEN [MyDID |-> md.myDID, TheirDID |-> md.theirDID]
    ELSE [MyDID |-> md.Recipients[1].MyDID, TheirDID |-> md.Recipients[1].TheirDID]

\* C9: an inbound disapproving Response at wait count 2 sends at most one
\* message, a problem-report addressed to Recipients[0] and never to
\* Recipients[1]; when the messenger accepts it the chain goes through
\* abandoning to done with exactly that one problem-report sent, and when the
\* messenger refuses it the call fails in abandoning with nothing sent.
C9_SecondDisapprovalReportsToFirst ==
    DisapprovalAt(initialWaitCount)
    => /\ Len(sent) <= 1
       /\ \A i \in 1..Len(sent) :
             /\ sent[i].type = ProblemReportMsgType
             /\ sent[i].op = "ReplyToNested"
             /\ sent[i].from = FirstRecipient.MyDID
             /\ sent[i].to = FirstRecipient.TheirDID
             /\ Len(md.Recipients) >= 2
                => /\ sent[i].from # md.Recipients[2].MyDID
                   /\ sent[i].to # md.Recipients[2].TheirDID
       /\ result # "panic"
       /\ result = "error" => (last.st = "abandoning" /\ sent = <<>>)
       /\ result = "ok"
          => /\ Len(sent) = 1
             /\ Len(executed) >= 2
             /\ SubSeq(executed, Len(executed) - 1, Len(executed))
                   = <<stateNameAbandoning, stateNameDone>>
             /\ persisted = stateNameDone

\* two recipients, the first not yet hydrated: one report, to the first
C9_Witness ==
    /\ DisapprovalAt(initialWaitCount)
    /\ result = "ok"
    /\ Len(md.Recipients) = 2
    /\ Len(sent) = 1
    /\ sent[1].to = MsgTheirDID
    /\ executed = <<stateNameArranging, stateNameAbandoning, stateNameDone>>

\* C10: toDestIDx(0) = 1 and toDestIDx(1) = 0; on the indices 0 and 1
\* toDestIDx is an involution and never returns the acting introducee's own
\* index, so the invitation delivering relays goes to the other recipient.
C10_ToDestIDxSwapsTheTwo ==
    /\ toDestIDx(0) = 1
    /\ toDestIDx(1) = 0
    /\ md.IntroduceeIndex \in {0, 1}
       => /\ toDestIDx(md.IntroduceeIndex) \in {0, 1}
          /\ toDestIDx(md.IntroduceeIndex) # md.IntroduceeIndex
          /\ toDestIDx(toDestIDx(md.IntroduceeIndex)) = md.IntroduceeIndex
    /\ (/\ last.st = "delivering"
        /\ last.followup = "confirming"
        /\ md.IntroduceeIndex \in {0, 1})
       => /\ Len(last.msgs) = 1
          /\ last.msgs[1].from = md.Recipients[2 - md.IntroduceeIndex].MyDID
          /\ last.msgs[1].to = md.Recipients[2 - md.IntroduceeIndex].TheirDID

\* introducee 1 supplied the invitation, it is relayed to recipient 0
C10_Witness ==
    /\ last.st = "delivering"
    /\ last.followup = "confirming"
    /\ md.IntroduceeIndex = 1
    /\ Len(md.Recipients) = 2
    /\ last.msgs[1].to = <<"their", 1>>

\* ---------------------------------------- properties of the connection store
TheirDIDPersisted(id) ==
    (cs.records[id] # NoRecord /\ cs.records[id].State = stateNameCompleted) =>
        cs.dids[cs.records[id].TheirDID].resolved

\* C11: saveConnectionRecord of a completed record whose write and resolution
\* succeed leaves a DID-store entry for TheirDID resolved with RecipientKeys;
\* saveConnectionRecord of a record in any other state resolves nothing and
\* leaves the DID store as it was.
C11_CompletedResolvesTheirDIDOthersNothing ==
    lastOp.kind = "save" =>
        /\ (lastOp.state = stateNameCompleted /\ lastOp.err = "nil") =>
              /\ cs.dids[lastOp.record.TheirDID] = DIDEntry(lastOp.record.RecipientKeys)
              /\ lastOp.resolutions =
                    <<Resolution(lastOp.record.TheirDID, lastOp.record.RecipientKeys)>>
        /\ lastOp.state # stateNameCompleted =>
              /\ lastOp.resolutions = <<>>
              /\ cs.dids = lastOp.before.dids

C11_Witness ==
    /\ lastOp.kind = "save"
    /\ lastOp.state = stateNameCompleted
    /\ lastOp.err = "nil"
    /\ lastOp.before.dids[lastOp.record.TheirDID] = NoEntry
    /\ cs.dids[lastOp.record.TheirDID] = DIDEntry(KeysOf(lastOp.id))

C13_WithMappingSavesIndexesAndResolvesMyDID ==
    lastOp.kind = "saveWithMapping" =>
        /\ lastOp.fault = "write" =>
              /\ lastOp.err # "nil"
              /\ lastOp.resolutions = <<>>
              /\ cs = lastOp.before
        /\ lastOp.fault # "write" =>
              /\ cs.records[lastOp.id] = lastOp.record
              /\ <<lastOp.record.Namespace, lastOp.record.ThreadID, lastOp.id>>
                    \in cs.mappings
              /\ lastOp.record.MyDID # EmptyDID <=>
                    lastOp.resolutions = <<Resolution(lastOp.record.MyDID, <<>>)>>
              /\ lastOp.record.MyDID = EmptyDID <=> lastOp.resolutions = <<>>
              /\ lastOp.record.MyDID = EmptyDID => cs.dids = lastOp.before.dids
        /\ (lastOp.err = "nil" /\ lastOp.record.MyDID # EmptyDID) =>
              cs.dids[lastOp.record.MyDID].resolved

C13_Witness ==
    /\ lastOp.kind = "saveWithMapping"
    /\ lastOp.err = "nil"
    /\ lastOp.record.MyDID # EmptyDID
    /\ lastOp.before.dids[lastOp.record.MyDID] = NoEntry
    /\ cs.dids[lastOp.record.MyDID].resolved
    /\ <<lastOp.record.Namespace, lastOp.record.ThreadID, lastOp.id>>
          \notin lastOp.before.mappings
    /\ <<lastOp.record.Namespace, lastOp.record.ThreadID, lastOp.id>> \in cs.mappings

\* C15: saveConnectionRecord returns an error whenever the write fails or,
\* for a completed record, the resolution fails; it reports success only
\* when neither failed, and a failed write is followed by no resolution.
C15_SaveSurfacesWriteAndResolveFailures ==
    lastOp.kind = "save" =>
        /\ lastOp.fault = "write" =>
              /\ lastOp.err # "nil"
              /\ lastOp.resolutions = <<>>
              /\ cs.dids = lastOp.before.dids
        /\ (lastOp.fault = "resolve" /\ lastOp.state = stateNameCompleted) =>
              lastOp.err # "nil"
        /\ lastOp.err = "nil" =>
              /\ cs.records[lastOp.id] = lastOp.record
              /\ lastOp.state = stateNameCompleted =>
                    cs.dids[lastOp.record.TheirDID].resolved

C15_Witness ==
    /\ lastOp.kind = "save"
    /\ lastOp.state = stateNameCompleted
    /\ lastOp.fault = "resolve"
    /\ lastOp.err = "resolve"
    /\ cs.records[lastOp.id] = lastOp.record
    /\ ~cs.dids[lastOp.record.TheirDID].resolved

\* C16: a lookup of a connection that was never saved, by id or by id and
\* state, returns the connection-not-found error and no record, never a
\* success; a failing store read returns the store's own error, which is not
\* the not-found error.
C16_LookupOfUnsavedIsNotFound ==
    lastOp.kind \in {"get", "getAtState"} =>
        /\ (/\ lastOp.kind = "get"
            /\ lastOp.fault # "read"
            /\ cs.records[lastOp.id] = NoRecord) =>
              lastOp.err = ErrConnectionNotFound /\ lastOp.got = NoRecord
        /\ (/\ lastOp.kind = "getAtState"
            /\ lastOp.fault # "read"
            /\ cs.atState[<<lastOp.id, lastOp.state>>] = NoRecord) =>
              lastOp.err = ErrConnectionNotFound /\ lastOp.got = NoRecord
        /\ lastOp.fault = "read" =>
              /\ lastOp.err = ErrGet
              /\ lastOp.err # ErrConnectionNotFound
              /\ lastOp.got = NoRecord

C16_Witness ==
    /\ lastOp.kind = "get"
    /\ lastOp.id = "id2"
    /\ cs.records["id2"] = NoRecord
    /\ cs.records["id1"] # NoRecord
    /\ lastOp.err = ErrConnectionNotFound
    /\ lastOp.got = NoRecord

\* C17: when the write of a save has succeeded, a lookup of the record's
\* connection id that reads the store succeeds and returns a record with the
\* same ConnectionID and State, the latest saved for that id.
C17_LookupAfterSaveReturnsTheRecord ==
    (/\ lastOp.kind = "get"
     /\ lastOp.prevKind \in SaveKinds
     /\ lastOp.prevErr # "write"
     /\ lastOp.fault # "read") =>
        /\ lastOp.err = "nil"
        /\ lastOp.got # NoRecord
        /\ lastOp.got.ConnectionID = lastOp.prevRecord.ConnectionID
        /\ lastOp.got.State = lastOp.prevRecord.State

C17_Witness ==
    /\ lastOp.kind = "get"
    /\ lastOp.prevKind = "save"
    /\ lastOp.prevErr = "nil"
    /\ lastOp.err = "nil"
    /\ lastOp.got = lastOp.prevRecord
    /\ lastOp.got.State = "responded"
    /\ cs.atState[<<lastOp.id, "requested">>] # NoRecord
    /\ cs.atState[<<lastOp.id, stateNameCompleted>>] # NoRecord

\* --------------------------------------- properties of the connection exchange
SavedStates(t) == {saveLog[t][i].state : i \in DOMAIN saveLog[t]}

\* C14: in the exchange (record absent, then created, then the approved
\* state, then completed) no save made before the completed one creates a
\* DID-store entry, and the successful save of the completed record creates
\* exactly one, the entry of the other party's DID.
C14_OneDIDEntryAtCompletedNoneBefore ==
    \A t \in ConnIDs :
        /\ \A i \in DOMAIN saveLog[t] :
            /\ saveLog[t][i].state # stateNameCompleted => saveLog[t][i].created = {}
            /\ (saveLog[t][i].state = stateNameCompleted /\ saveLog[t][i].err = "nil") =>
                  saveLog[t][i].created = {TheirDIDOf(t)}
        /\ stateNameCompleted \notin SavedStates(t) =>
              ~cs.dids[TheirDIDOf(t)].resolved /\ ~cs.dids[MyDIDOf(t)].resolved

C14_Witness ==
    /\ Len(saveLog["id1"]) = 3
    /\ saveLog["id1"][1] = [state |-> "requested", err |-> "nil", created |-> {}]
    /\ saveLog["id1"][2] = [state |-> "responded", err |-> "nil", created |-> {}]
    /\ saveLog["id1"][3] = [state |-> stateNameCompleted, err |-> "nil",
                            created |-> {TheirDIDOf("id1")}]
    /\ Cardinality({d \in DIDs : cs.dids[d].resolved}) = 1

\* C18: whenever the application receives the post-state event of state S of
\* a connection, the record is already persisted with state S: the lookup of
\* the connection at state S made on receipt succeeds and returns a record
\* of that connection whose State is S.
C18_PostStateEventFollowsPersistence ==
    delivered # NoDelivery =>
        /\ delivered.err = "nil"
        /\ delivered.got # NoRecord
        /\ delivered.got.ConnectionID = delivered.id
        /\ delivered.got.State = delivered.state

C18_Witness ==
    /\ delivered.id = "id1"
    /\ delivered.state = "responded"
    /\ delivered.err = "nil"
    /\ delivered.got.State = "responded"
    /\ cs.records["id1"].State = stateNameCompleted

\* nothing of the approved state has happened
NothingOfApprovedState(t) ==
    /\ outbox[t] = <<>>
    /\ conn[t] # NoRecord => conn[t].State = CreatedState(t)
    /\ cs.atState[<<t, ApprovedState(t)>>] = NoRecord
    /\ Event(t, ApprovedState(t)) \notin published
    /\ Len(saveLog[t]) <= 1

\* one action event for the state that needs approval, and nothing of that
\* state before the handler has continued
C19_BlockedUntilContinued ==
    \A t \in ConnIDs :
        /\ actions[t] <= 1
        /\ pc[t] \in {"waiting", "approved", "stopped"} => actions[t] = 1
        /\ decision[t] # "none" => actions[t] = 1
        /\ decision[t] # "continue" => NothingOfApprovedState(t)

StoredSoFar == IF executed = <<>> THEN call.cur ELSE executed[Len(executed)]

\* C21: when a step of a followup chain returns an error, that error is the
\* call's result, the state stored by the earlier steps stays stored, the
\* messages the earlier steps sent stay sent, and the call executes no
\* further state: its only continuation is the return to the caller.
C21_FailedStepEndsChainWithoutRollback ==
    [][ /\ (result = "running" /\ result' = "error") =>
            /\ last'.err = "error"
            /\ last'.st = current
            /\ persisted' = StoredSoFar
            /\ Len(sent') >= Len(sent)
            /\ SubSeq(sent', 1, Len(sent)) = sent
            /\ executed' = Append(executed, Name(current))
        /\ (result = "error") =>
            /\ result' = "idle"
            /\ persisted' = persisted
      ]_vars

\* delivering relayed the invitation and was stored, then confirming failed
C21_Witness ==
    /\ result = "error"
    /\ executed = <<stateNameDelivering, stateNameConfirming>>
    /\ persisted = stateNameDelivering
    /\ Len(sent) = 1
    /\ sent[1].type = InvitationMsgType

\* the stored record of connection id, by id and by id and state, and the
\* record its thread works on
RecordChanges(id) ==
    \/ cs'.records[id] # cs.records[id]
    \/ \E s \in ConnStates : cs'.atState[<<id, s>>] # cs.atState[<<id, s>>]
    \/ conn'[id] # conn[id]

\* a transition sequence of thread t is under way
Busy == {"publish", "approval", "approved", "persist", "followup"}

C24_FailedExecuteSentNothing ==
    (result = "direct" /\ last.err = "error") => sent = <<>>

\* the context's message is a Response that decodes with approve = false
DisapprovalOf(m) ==
    m.Msg = [type |-> ResponseMsgType, decodes |-> TRUE, approve |-> FALSE]

\* abandoning.ExecuteInbound was called on its own
AbandoningRan ==
    result = "direct" /\ current = "abandoning" /\ trigger = "inbound"

\* own and peer DID each sent message went out under
Addressees == [i \in 1..Len(sent) |-> <<sent[i].from, sent[i].to>>]

\* the addressees of a list synthesized from the triggering message
FromMessage == << <<given.m.myDID, given.m.theirDID>> >>

OfList(rs) == [i \in 1..Len(rs) |-> <<rs[i].MyDID, rs[i].TheirDID>>]

\* the first recipient got the message's DIDs where it had none and kept
\* the ones it had; the rest of the list is as it was
BackFilled(before, after) ==
    /\ Len(after) = Len(before)
    /\ \A j \in 2..Len(before) : after[j] = before[j]
    /\ Len(before) > 0 =>
        /\ after[1].To = before[1].To
        /\ before[1].MyDID # EmptyDID => after[1].MyDID = before[1].MyDID
        /\ before[1].MyDID = EmptyDID => after[1].MyDID = given.m.myDID
        /\ before[1].TheirDID # EmptyDID => after[1].TheirDID = before[1].TheirDID
        /\ before[1].TheirDID = EmptyDID => after[1].TheirDID = given.m.theirDID

\* C25 as stated: in abandoning, an inbound Request has a recipient list
\* synthesized from the message's DIDs only if the context has no recipient
\* list yet (otherwise the existing list is used); an inbound Response has
\* only the empty DIDs of Recipients[0] back-filled, no DID overwritten and
\* the other recipients unchanged.
C25_RequestSynthesizesOnlyWithoutList ==
    AbandoningRan =>
        /\ given.m.Msg.type = RequestMsgType =>
            /\ md.Recipients = given.m.Recipients
            /\ given.fail = 0 =>
                 Addressees = IF given.m.Recipients = <<>>
                              THEN FromMessage
                              ELSE OfList(given.m.Recipients)
        /\ given.m.Msg.type = ResponseMsgType =>
             BackFilled(given.m.Recipients, md.Recipients)

\* C25 amended: in abandoning, an inbound Request always has a one-element
\* list synthesized from the message's DIDs for the problem-report, whether
\* or not the context has a recipient list, and the context's list is left
\* as it was; an inbound Response has only the empty DIDs of Recipients[0]
\* back-filled, no DID overwritten and the other recipients unchanged, and
\* with an empty list the problem-report goes to the message's DIDs.
C25_RequestAlwaysSynthesizes ==
    AbandoningRan =>
        /\ given.m.Msg.type = RequestMsgType =>
            /\ md.Recipients = given.m.Recipients
            /\ given.fail = 0 => Addressees = FromMessage
        /\ given.m.Msg.type = ResponseMsgType =>
            /\ BackFilled(given.m.Recipients, md.Recipients)
            /\ (given.m.Recipients = <<>> /\ given.fail = 0 /\ last.followup = "done"
                    /\ ~(DisapprovalOf(given.m) /\ given.m.WaitCount = 1)) =>
                  Addressees = FromMessage

\* a Request met two recipients with their own DIDs: the report went to the
\* DIDs of the message and the list stayed
C25_Witness ==
    /\ AbandoningRan
    /\ given.m.Msg.type = RequestMsgType
    /\ Len(given.m.Recipients) = 2
    /\ given.m.Recipients[1].MyDID # EmptyDID
    /\ given.fail = 0
    /\ Addressees = FromMessage
    /\ md.Recipients = given.m.Recipients

\* arranging.ExecuteInbound was called on its own
ArrangingRan ==
    result = "direct" /\ current = "arranging" /\ trigger = "inbound"

\* the Proposal for recipient r of the context the operation was given
ProposalFor(r) ==
    Sent("Send", ProposalMsgType, r.MyDID, r.TheirDID, given.m.ThreadID, r.To)

\* C26: with exactly two recipients and an inbound message that is neither
\* a skip-proposal Response nor a disapproving Response, arranging's inbound
\* execution returns noOp as followup and hands the messenger exactly one
\* Proposal, carrying the thread ID, for Recipients[0] when WaitCount is the
\* initial wait count and for Recipients[1] for every other WaitCount; if
\* the messenger refuses that one send, its error is returned beside noOp
\* and nothing is sent.
C26_ProposalGoesToRecipientByWaitCount ==
    ( /\ ArrangingRan
      /\ Len(given.m.Recipients) = 2
      /\ ~(given.m.Msg.type = ResponseMsgType /\ isSkipProposal(given.m))
      /\ ~DisapprovalOf(given.m) ) =>
        LET r == IF given.m.WaitCount = initialWaitCount
                 THEN given.m.Recipients[1]
                 ELSE given.m.Recipients[2]
        IN  /\ last.followup = "noOp"
            /\ md = given.m
            /\ IF given.fail = 1
               THEN last.err = "error" /\ sent = <<>>
               ELSE last.err = "nil" /\ sent = <<ProposalFor(r)>>

\* after the first approval the proposal went to the second recipient
C26_Witness ==
    /\ ArrangingRan
    /\ Len(given.m.Recipients) = 2
    /\ given.m.Msg = [type |-> ResponseMsgType, decodes |-> TRUE, approve |-> TRUE]
    /\ ~isSkipProposal(given.m)
    /\ given.m.WaitCount = initialWaitCount - 1
    /\ last.followup = "noOp"
    /\ last.err = "nil"
    /\ sent = <<ProposalFor(given.m.Recipients[2])>>
    /\ sent[1].ref = given.m.ThreadID

\* the message is not a Response, or it is a Response that fails to decode
NoApproveSignal(msg) == msg.type # ResponseMsgType \/ ~msg.decodes

\* how many recipients abandoning reports to when it drops none
Reported(m) ==
    IF m.Msg.type = RequestMsgType THEN 1
    ELSE IF m.Msg.type # ResponseMsgType THEN 0
    ELSE IF Len(m.Recipients) = 0 THEN 1
    ELSE Len(m.Recipients)

\* C27: a message that is not a Response, or a Response whose payload fails
\* to decode, gives no approve signal and is never taken as a disapproval:
\* arranging does not route to abandoning on it, delivering routes to
\* abandoning only for its missing invitation, and abandoning neither ends
\* at done without reporting nor cuts its recipients down to the first.
C27_NoApproveSignalIsNotDisapproval ==
    ( /\ result = "direct"
      /\ trigger = "inbound"
      /\ NoApproveSignal(given.m.Msg) ) =>
        /\ ~getApproveFromMsg(given.m.Msg).ok
        /\ current = "arranging" => last.followup # "abandoning"
        /\ (current = "delivering" /\ last.followup = "abandoning") =>
              ~isSkipProposal(given.m) /\ ~given.m.Invitation
        /\ (current = "abandoning" /\ given.fail = 0) =>
              /\ last.followup = "done"
              /\ Len(sent) = Reported(given.m)
              /\ \A i \in 1..Len(sent) : sent[i].type = ProblemReportMsgType

\* an undecodable Response at wait count 1: both recipients are reported to
C27_Witness ==
    /\ AbandoningRan
    /\ given.m.Msg = [type |-> ResponseMsgType, decodes |-> FALSE, approve |-> FALSE]
    /\ given.m.WaitCount = 1
    /\ Len(given.m.Recipients) = 2
    /\ given.fail = 0
    /\ Len(sent) = 2
    /\ Addressees = OfList(md.Recipients)

\* the states with an outbound execution
SendsOutbound == {"arranging", "requesting"}

\* C28: the outbound execution of arranging and of requesting hands the
\* messenger exactly the triggering message, from the context's own DID to
\* its peer DID, and returns noOp (or the messenger's error, with nothing
\* sent); the outbound execution of each of the other eight states and the
\* inbound execution of start and of requesting return an error and send
\* nothing. No execution of these changes the context.
C28_OutboundOnlyForArrangingAndRequesting ==
    result = "direct" =>
        /\ (trigger = "outbound" /\ current \in SendsOutbound) =>
              /\ md = given.m
              /\ IF given.fail = 1
                 THEN last.err = "error" /\ sent = <<>>
                 ELSE /\ last.err = "nil"
                      /\ last.followup = "noOp"
                      /\ sent = <<Sent("Send", given.m.Msg.type, given.m.myDID,
                                       given.m.theirDID, given.m.ThreadID, "Msg")>>
        /\ (trigger = "outbound" /\ current \notin SendsOutbound) =>
              last.err = "error" /\ sent = <<>> /\ md = given.m
        /\ (trigger = "inbound" /\ current \in {"start", "requesting"}) =>
              last.err = "error" /\ sent = <<>> /\ md = given.m

\* requesting sent the introducee's Request on its connection
C28_Witness ==
    /\ result = "direct"
    /\ trigger = "outbound"
    /\ current = "requesting"
    /\ given.m.Msg.type = RequestMsgType
    /\ last.followup = "noOp"
    /\ last.err = "nil"
    /\ Len(sent) = 1
    /\ sent[1].from = MsgMyDID
    /\ sent[1].to = MsgTheirDID

\* a call that entered deciding on an inbound message, with deciding's own
\* execution done and not failed
DecidingReplied ==
    /\ result \in {"running", "ok", "error", "panic"}
    /\ trigger = "inbound"
    /\ call.next = stateNameDeciding
    /\ Len(executed) >= 1
    /\ ~(Len(executed) = 1 /\ result \in {"error", "panic"})

\* C29: deciding's inbound execution replies to the triggering message with
\* exactly one Response whose approve field is the negation of the context's
\* disapproval flag; its followup is waiting when the introducee approves
\* and abandoning when it disapproves; in the disapproving case, the
\* triggering message being the Proposal, the chain goes on through
\* abandoning to done without failing and without any problem-report: the
\* Response stays the only message sent.
C29_DecidingRepliesAndDisapprovalEndsAtDone ==
    DecidingReplied =>
        /\ Len(sent) >= 1
        /\ sent[1].op = "ReplyTo"
        /\ sent[1].type = ResponseMsgType
        /\ sent[1].ref = MsgID
        /\ sent[1].body[2] = ~md.disapprove
        /\ \A i \in 2..Len(sent) : sent[i].type # ResponseMsgType
        /\ executed[1] = stateNameDeciding
        /\ Len(executed) = 1 =>
              current = IF md.disapprove THEN "abandoning" ELSE "waiting"
        /\ Len(executed) >= 2 =>
              executed[2] = IF md.disapprove THEN stateNameAbandoning
                            ELSE stateNameWaiting
        /\ (result = "ok" /\ ~md.disapprove) =>
              /\ executed = <<stateNameDeciding, stateNameWaiting>>
              /\ Len(sent) = 1
        /\ (md.disapprove /\ md.Msg.type = ProposalMsgType) =>
              /\ result \in {"running", "ok"}
              /\ Len(sent) = 1
              /\ result = "ok" =>
                    /\ executed = <<stateNameDeciding, stateNameAbandoning,
                                    stateNameDone>>
                    /\ persisted = stateNameDone

\* the introducee disapproved the proposal: one Response with approve =
\* false, then abandoning and done, nothing else sent
C29_Witness ==
    /\ DecidingReplied
    /\ result = "ok"
    /\ md.disapprove
    /\ md.Msg.type = ProposalMsgType
    /\ executed = <<stateNameDeciding, stateNameAbandoning, stateNameDone>>
    /\ Len(sent) = 1
    /\ sent[1].type = ResponseMsgType
    /\ sent[1].body[2] = FALSE

\* a call that entered delivering on an approving Response that does not
\* skip the proposal, with no invitation in the context, delivering's own
\* execution done
DeliveringWithoutInvitation ==
    /\ result \in {"running", "ok", "error", "panic"}
    /\ trigger = "inbound"
    /\ call.next = stateNameDelivering
    /\ md.Msg = [type |-> ResponseMsgType, decodes |-> TRUE, approve |-> TRUE]
    /\ ~isSkipProposal(md)
    /\ ~md.Invitation
    /\ Len(executed) >= 1

\* C30: when delivering runs on an approving, non-skip Response while the
\* context carries no invitation, it sends nothing and returns abandoning;
\* the chain then sends only problem-reports, one to each recipient of the
\* list (to the DIDs of the message when the list is empty), never an
\* invitation or an ack, and ends at done; if the messenger refuses a
\* report the chain stops in abandoning with delivering stored.
C30_MissingInvitationAbandonsWithReports ==
    DeliveringWithoutInvitation =>
        /\ executed[1] = stateNameDelivering
        /\ result # "panic"
        /\ Len(executed) = 1 =>
              /\ sent = <<>>
              /\ result = "running"
              /\ current = "abandoning"
              /\ persisted = stateNameDelivering
        /\ Len(executed) >= 2 => executed[2] = stateNameAbandoning
        /\ \A i \in 1..Len(sent) :
              /\ sent[i].type = ProblemReportMsgType
              /\ sent[i].type \notin {InvitationMsgType, AckMsgType}
              /\ sent[i].ref = md.ThreadID
        /\ result = "error" =>
              /\ executed = <<stateNameDelivering, stateNameAbandoning>>
              /\ persisted = stateNameDelivering
        /\ Len(executed) >= 2 /\ result # "error" =>
              Addressees = IF md.Recipients = <<>>
                           THEN << <<md.myDID, md.theirDID>> >>
                           ELSE OfList(md.Recipients)
        /\ result = "ok" =>
              /\ executed = <<stateNameDelivering, stateNameAbandoning,
                              stateNameDone>>
              /\ persisted = stateNameDone

\* both introducees were told of the problem and the thread is done
C30_Witness ==
    /\ DeliveringWithoutInvitation
    /\ result = "ok"
    /\ executed = <<stateNameDelivering, stateNameAbandoning, stateNameDone>>
    /\ Len(md.Recipients) = 2
    /\ Len(sent) = 2
    /\ sent[1].type = ProblemReportMsgType
    /\ sent[2].type = ProblemReportMsgType
    /\ persisted = stateNameDone

\* ------------------------------------------------------------------
\* a completed record whose resolution failed

\* C31: when saveConnectionRecord has written a completed record and the
\* resolution of the peer's DID fails, the error is returned and the record
\* stays stored, by id and by id and state, with state completed; the DID
\* store is as it was before the call, so a peer without an entry before
\* has none after, and a lookup right after the call returns the completed
\* record.
C31_FailedResolutionKeepsCompletedRecord ==
    /\ ( /\ lastOp.kind = "save"
         /\ lastOp.state = stateNameCompleted
         /\ lastOp.fault = "resolve" ) =>
            /\ lastOp.err = "resolve"
            /\ cs.records[lastOp.id] = lastOp.record
            /\ cs.records[lastOp.id].State = stateNameCompleted
            /\ cs.atState[<<lastOp.id, stateNameCompleted>>] = lastOp.record
            /\ cs.dids = lastOp.before.dids
            /\ ~lastOp.before.dids[lastOp.record.TheirDID].resolved =>
                  ~TheirDIDPersisted(lastOp.id)
    /\ ( /\ lastOp.kind = "get"
         /\ lastOp.fault = "none"
         /\ lastOp.prevKind = "save"
         /\ lastOp.prevRecord.State = stateNameCompleted
         /\ lastOp.prevErr = "resolve" ) =>
            /\ lastOp.err = "nil"
            /\ lastOp.got = lastOp.prevRecord

\* the lookup after the failed save finds the completed record, whose peer
\* has no entry in the DID store
C31_Witness ==
    /\ lastOp.kind = "get"
    /\ lastOp.prevKind = "save"
    /\ lastOp.prevErr = "resolve"
    /\ lastOp.err = "nil"
    /\ lastOp.got # NoRecord
    /\ lastOp.got.State = stateNameCompleted
    /\ ~cs.dids[TheirDIDOf(lastOp.id)].resolved
    /\ ~TheirDIDPersisted(lastOp.id)

\* ------------------------------------------------------------------
\* properties of the followup chains

\* C32: every followup state a successful execute operation of a state s
\* returns is the noop sentinel or a state n with s.CanTransitionTo(n) true;
\* hence in every chain the loop runs, each executed state after the first
\* is a legal next state of the one executed before it.
C32_FollowupsAreLegalTransitions ==
    /\ (Len(executed) >= 1 /\ last.err = "nil") =>
          \/ last.followup = "noOp"
          \/ /\ last.followup \in StateTypes
             /\ CanTransitionTo(last.st, last.followup)
    /\ \A i \in 1..(Len(executed) - 1) :
          /\ executed[i + 1] \in LegalNext[executed[i]]
          /\ CanTransitionTo(stateFromName(executed[i]), stateFromName(executed[i + 1]))

\* the longest chain: each state was a legal next state of the one before
C32_Witness ==
    /\ result = "ok"
    /\ executed = <<stateNameArranging, stateNameDelivering, stateNameAbandoning,
                    stateNameDone>>
    /\ last.followup = "noOp"

\* the chain has executed no state twice
NoStateTwice ==
    \A i, j \in 1..Len(executed) : executed[i] = executed[j] => i = j

\* the chain ends within four state executions, none of them repeated
EndsWithinFour ==
    /\ Len(executed) <= 4
    /\ NoStateTwice
    /\ Len(executed) = 4 => result \in {"ok", "error", "panic"}

\* C33 as stated: the followup loop always terminates: from any state, any
\* trigger and any context the chain contains no state twice and reaches
\* the noop sentinel or an error after at most four state executions, the
\* chain of four being arranging, delivering, confirming, done.
C33_LongestChainThroughConfirming ==
    /\ EndsWithinFour
    /\ Len(executed) = 4 =>
          executed = <<stateNameArranging, stateNameDelivering,
                       stateNameConfirming, stateNameDone>>

\* C33 amended: the followup loop always terminates: from any state, any
\* trigger and any context the chain contains no state twice and ends after
\* at most four state executions; the one chain of four is arranging,
\* delivering, abandoning, done (a disapproving skip-proposal Response).
\* Arranging hands over to delivering only on a skip-proposal Response, on
\* which delivering never goes on to confirming: a chain through
\* confirming starts at delivering or at confirming and ends at done.
C33_LongestChainThroughAbandoning ==
    /\ EndsWithinFour
    /\ Len(executed) = 4 =>
          executed = <<stateNameArranging, stateNameDelivering,
                       stateNameAbandoning, stateNameDone>>
    /\ \A i \in 1..Len(executed) :
          executed[i] = stateNameConfirming =>
             /\ i <= 2
             /\ i = 2 => executed[1] = stateNameDelivering
             /\ Len(executed) > i => executed[i + 1] = stateNameDone

\* the chain of four has come to its end without error
C33_Witness ==
    /\ result = "ok"
    /\ Len(executed) = 4
    /\ executed[3] = stateNameAbandoning
    /\ persisted = stateNameDone
    /\ DisapprovalOf(md)
    /\ isSkipProposal(md)

\* a call on an inbound Response with approve = false, entered at one of
\* the introducer's states that take a Response
DisapprovalChain ==
    /\ result \in {"running", "ok", "error", "panic"}
    /\ trigger = "inbound"
    /\ DisapprovalOf(md)
    /\ call.next \in {stateNameArranging, stateNameDelivering, stateNameAbandoning}

\* C34: in a followup chain triggered by an inbound Response with approve =
\* false no Proposal, no Invitation and no Ack is ever sent and confirming
\* is never executed, also when the skip-proposal condition holds for that
\* Response: arranging then routes to delivering, which routes to abandoning
\* before any relay.
C34_DisapprovalSendsNoProposalInvitationAck ==
    DisapprovalChain =>
        /\ \A i \in 1..Len(sent) :
              /\ sent[i].type \notin {ProposalMsgType, InvitationMsgType, AckMsgType}
              /\ sent[i].type = ProblemReportMsgType
        /\ \A i \in 1..Len(executed) : executed[i] # stateNameConfirming
        /\ (call.next = stateNameArranging /\ isSkipProposal(md)) =>
              /\ Len(executed) >= 2 => executed[2] = stateNameDelivering
              /\ Len(executed) >= 3 => executed[3] = stateNameAbandoning
              /\ Len(executed) <= 2 => sent = <<>>
        /\ (call.next = stateNameDelivering /\ Len(executed) >= 2) =>
              executed[2] = stateNameAbandoning

\* a disapproving skip-proposal Response went through arranging, delivering
\* and abandoning: only the problem-report to the first recipient was sent
C34_Witness ==
    /\ DisapprovalChain
    /\ isSkipProposal(md)
    /\ result = "ok"
    /\ executed = <<stateNameArranging, stateNameDelivering, stateNameAbandoning,
                    stateNameDone>>
    /\ Len(md.Recipients) = 2
    /\ Len(sent) = 1
    /\ sent[1].type = ProblemReportMsgType

\* a call entered at delivering that went on to confirming, with two
\* recipients and the index of the introducee that supplied the invitation
RelayChain ==
    /\ result \in {"running", "ok", "error", "panic"}
    /\ trigger = "inbound"
    /\ call.next = stateNameDelivering
    /\ Len(executed) >= 2
    /\ executed[2] = stateNameConfirming
    /\ Len(md.Recipients) = 2
    /\ md.IntroduceeIndex \in {0, 1}

\* own and peer DID of a recipient
DIDsOf(r) == <<r.MyDID, r.TheirDID>>

\* C35: in a delivering, confirming, done chain that does not skip the
\* proposal, with two recipients and IntroduceeIndex 0 or 1, the invitation
\* is relayed to Recipients[1 - IntroduceeIndex] and the ack is sent to
\* Recipients[IntroduceeIndex]: the two go to different recipients and the
\* introducee that supplied the invitation does not get it back.
C35_InvitationToOtherAckToIntroducee ==
    RelayChain =>
        LET supplier == md.Recipients[md.IntroduceeIndex + 1]
            other    == md.Recipients[(1 - md.IntroduceeIndex) + 1]
        IN  /\ ~isSkipProposal(md)
            /\ md.Invitation
            /\ Len(sent) >= 1
            /\ sent[1].type = InvitationMsgType
            /\ Addressees[1] = DIDsOf(other)
            /\ Addressees[1] # DIDsOf(supplier)
            /\ result # "panic"
            /\ result = "error" => Len(sent) = 1
            /\ result = "ok" =>
                  executed = <<stateNameDelivering, stateNameConfirming,
                               stateNameDone>>
            /\ result # "error" =>
                  /\ Len(sent) = 2
                  /\ sent[2].type = AckMsgType
                  /\ Addressees[2] = DIDsOf(supplier)
                  /\ Addressees[2] # Addressees[1]

\* the second introducee supplied the invitation: it went to the first, the
\* ack to the second
C35_Witness ==
    /\ RelayChain
    /\ result = "ok"
    /\ md.IntroduceeIndex = 1
    /\ Len(sent) = 2
    /\ Addressees[1] = DIDsOf(md.Recipients[1])
    /\ Addressees[2] = DIDsOf(md.Recipients[2])
    /\ sent[1].type = InvitationMsgType
    /\ sent[2].type = AckMsgType

\* the states a chain that ended without error can leave the thread at
RestingStates ==
    {stateNameArranging, stateNameRequesting, stateNameWaiting, stateNameDone}

\* C36: every followup chain that completes without error and has executed
\* delivering, confirming or abandoning has done as its last executed
\* state; a chain that completes without error leaves the thread at its
\* last executed state, and that state is arranging, requesting, waiting or
\* done.
C36_SuccessfulChainsRestAtFourStates ==
    result = "ok" =>
        /\ Len(executed) >= 1
        /\ last.followup = "noOp"
        /\ persisted = executed[Len(executed)]
        /\ persisted \in RestingStates
        /\ (\E i \in 1..Len(executed) :
               executed[i] \in {stateNameDelivering, stateNameConfirming,
                                stateNameAbandoning}) =>
              executed[Len(executed)] = stateNameDone

\* the relay chain came to rest at done
C36_Witness ==
    /\ result = "ok"
    /\ executed = <<stateNameDelivering, stateNameConfirming, stateNameDone>>
    /\ persisted = stateNameDone
    /\ last.st = "done"
    /\ last.followup = "noOp"

====
